---- MODULE Spec2Model ----
(***************************************************************************)
(* Conditional Clade Distribution (CCD) core of phylo-mds.                 *)
(*                                                                         *)
(* State: one CCD object (AbstractCCD / CCD1) with its clade map, the      *)
(* clades' partitions and cached scalars, and the three dirty flags.       *)
(* Operations: construction, fromTrees, addTree, initialize and the        *)
(* getters.                                                                *)
(*                                                                         *)
(* Numbers.  A probability is an exact rational <<n, d>> (d > 0, reduced). *)
(* A logarithm x is carried as the rational e^x: -Infinity is 0, 0 is 1    *)
(* and a sum of logarithms is a product.  The IEEE-754 rounding of the     *)
(* quotient occurrenceCount / partitionSum and of a floating point sum of  *)
(* such quotients is modelled separately (Dbl, FAdd) on 60-bit fixed point *)
(* numbers, which hold every double in [2^-8, 2) exactly.                  *)
(*                                                                         *)
(* Node heights (sumOfOccurredHeights) and the Lewis entropy cache are not *)
(* part of the state modelled here.                                        *)
(***************************************************************************)
EXTENDS Integers, Sequences, FiniteSets, TLC

VARIABLES
    ccd,     \* the CCD object (currentCCD), or NoCCD before construction
    ret,     \* outcome of the last call: operation, argument, value, error
    ghost    \* history: how the CCD was built, the bag of trees handed to
             \* addTree, whether initialize ran since the last addTree,
             \* whether an addTree threw, the arguments of fromTrees

vars == <<ccd, ret, ghost>>

----------------------------------------------------------------------------
(* Bounds *)

MaxTaxa == 4         \* largest taxon set of a directly constructed CCD
MaxTrees == 3        \* addTree calls per CCD in Spec
MaxList == 2         \* length of the tree list handed to fromTrees
MaxSumTrees == 6     \* addTree calls per CCD in SpecSum
MaxMixTrees == 5     \* length of a list of different trees analysed for mixing
MaxSameTrees == 7    \* length of a list of identical trees analysed for mixing
MaxWords == 2        \* words of the largest BitSet
MaxFile == 6         \* trees in the file handed to the MDS driver
MaxPoints == 3       \* rows of the distance matrix handed to classicalMDS
MaxSteps == 3        \* trees per chain handed to calculateDissonance

\* A JavaScript array: the sequence f with every element evaluated
Array(f) == SubSeq(f, 1, Len(f))

----------------------------------------------------------------------------
(* Rationals *)

RECURSIVE GCD(_, _)
GCD(a, b) == IF b = 0 THEN a ELSE GCD(b, a % b)

Abs(x) == IF x < 0 THEN -x ELSE x

Rat(n, d) ==
    LET g == GCD(Abs(n), Abs(d))
        s == IF d < 0 THEN -1 ELSE 1
    IN  <<(s * n) \div g, (s * d) \div g>>

RZero == <<0, 1>>
ROne == <<1, 1>>
RMinusOne == <<-1, 1>>

RAdd(p, q) == Rat(p[1] * q[2] + q[1] * p[2], p[2] * q[2])
RMul(p, q) == Rat(p[1] * q[1], p[2] * q[2])
RLess(p, q) == p[1] * q[2] < q[1] * p[2]
RLeq(p, q) == p[1] * q[2] <= q[1] * p[2]
RMax(p, q) == IF RLess(p, q) THEN q ELSE p

\* Logarithms, carried as their exponentials.
NegInf == RZero
LogZero == ROne
MathLog(x) == x
MathExp(x) == x
LogAdd(x, y) == RMul(x, y)

----------------------------------------------------------------------------
(* Trees: a vertex is a record; a tree is its root vertex *)

Alphabet == <<"1", "2", "3", "4", "5", "6", "7", "8", "9", "A", "B", "C", "D", "E", "F">>

\* Position of a one-character label in code unit order (Array.prototype.sort)
Rank(s) == CHOOSE i \in 1..Len(Alphabet) : Alphabet[i] = s

NoLabel == ""

\* The value of children[k] past the end of the array
Undefined == [label |-> "undefined", id |-> 0, children |-> <<>>]

Leaf(l) == [label |-> l, id |-> 7, children |-> <<>>]
UnlabelledLeaf(i) == [label |-> NoLabel, id |-> i, children |-> <<>>]
Node(x, y) == [label |-> NoLabel, id |-> 8, children |-> <<x, y>>]
Node1(x) == [label |-> NoLabel, id |-> 8, children |-> <<x>>]
Node3(x, y, z) == [label |-> NoLabel, id |-> 8, children |-> <<x, y, z>>]

isLeaf(v) == Len(v.children) = 0
IsUndefined(v) == v.label = "undefined"

\* vertex.children[k] with JavaScript's 0-based index k
Child(v, k) == IF k + 1 <= Len(v.children) THEN v.children[k + 1] ELSE Undefined

\* id.toString()
IdToString(i) == Alphabet[i]

\* leaf.label || leaf.id.toString()
LabelOf(v) == IF v.label # NoLabel THEN v.label ELSE IdToString(v.id)

RECURSIVE leafList(_)
leafList(v) ==
    IF isLeaf(v) THEN <<v>>
    ELSE IF Len(v.children) = 1 THEN leafList(v.children[1])
    ELSE IF Len(v.children) = 2 THEN leafList(v.children[1]) \o leafList(v.children[2])
    ELSE leafList(v.children[1]) \o leafList(v.children[2]) \o leafList(v.children[3])

TipLabels(v) == {LabelOf(leafList(v)[i]) : i \in 1..Len(leafList(v))}

RECURSIVE IsBinary(_)
IsBinary(v) ==
    \/ isLeaf(v)
    \/ Len(v.children) = 2 /\ IsBinary(v.children[1]) /\ IsBinary(v.children[2])

----------------------------------------------------------------------------
(* BitSet: the set of set bit indices; toString joins them in ascending order *)

RECURSIVE SortedSeq(_)
SortedSeq(S) ==
    IF S = {} THEN <<>>
    ELSE LET m == CHOOSE x \in S : \A y \in S : x <= y
         IN  <<m>> \o SortedSeq(S \ {m})

BitSetToString(bits) == SortedSeq(bits)
cardinality(bits) == Cardinality(bits)
setRange(lo, hi) == lo..(hi - 1)

----------------------------------------------------------------------------
(* Clade and CladePartition *)

NewClade(bits) ==
    [cladeInBits |-> bits,
     partitions |-> <<>>,
     parentClades |-> {},
     occurrenceCount |-> 0,
     probability |-> RMinusOne,
     maxSubtreeCCP |-> NegInf,
     maxSubtreeCCPPartition |-> 0]

NewCladePartition(first, second) ==
    [childClades |-> <<first, second>>,
     occurrenceCount |-> 0,
     ccp |-> RMinusOne,
     logCCP |-> NegInf]

\* containsChildClades comparing the children in the order given only
containsChildCladesInOrder(p, c1, c2) ==
    p.childClades[1] = c1 /\ p.childClades[2] = c2

containsChildClades(p, c1, c2) ==
    \/ p.childClades[1] = c1 /\ p.childClades[2] = c2
    \/ p.childClades[1] = c2 /\ p.childClades[2] = c1

\* getCladePartition returning from the loop after the first partition
getFirstCladePartition(clade, c1, c2) ==
    IF Len(clade.partitions) > 0 /\ containsChildClades(clade.partitions[1], c1, c2)
    THEN 1 ELSE 0

\* Index of the first matching partition of a clade, 0 for null
getCladePartition(clade, c1, c2) ==
    LET hits == {i \in 1..Len(clade.partitions) :
                    containsChildClades(clade.partitions[i], c1, c2)}
    IN  IF hits = {} THEN 0 ELSE CHOOSE i \in hits : \A j \in hits : i <= j

setCCP(p, value) ==
    [p EXCEPT !.ccp = value,
              !.logCCP = IF RLess(RZero, value) THEN MathLog(value) ELSE NegInf]

resetCachedValues(clade) ==
    [clade EXCEPT !.probability = RMinusOne,
                  !.maxSubtreeCCP = NegInf,
                  !.maxSubtreeCCPPartition = 0]

CladeIsLeaf(clade) == cardinality(clade.cladeInBits) = 1

----------------------------------------------------------------------------
(* AbstractCCD *)

NoError == [kind |-> "none", label |-> ""]
TaxonUnknown(l) == [kind |-> "TaxonUnknown", label |-> l]
TypeError == [kind |-> "TypeError", label |-> ""]
NoTrees == [kind |-> "NoTrees", label |-> ""]

UndefIndex == -2
MapGet(m, k) == IF k \in DOMAIN m THEN m[k] ELSE UndefIndex

\* sortedTaxa.forEach((taxon, index) => mapping.set(taxon, index))
sortedTaxa(S) ==
    LET ranks == SortedSeq({Rank(l) : l \in S})
    IN  Array([i \in 1..Len(ranks) |-> Alphabet[ranks[i]]])

MappingOf(names) ==
    [l \in {names[i] : i \in 1..Len(names)} |->
        (CHOOSE i \in 1..Len(names) : names[i] = l) - 1]

\* constructor + initializeRootClade; the caller assigns the taxon mapping
CCD1(numLeaves, names) ==
    [leafArraySize |-> numLeaves,
     taxonNames |-> names,
     taxonMapping |-> MappingOf(names),
     baseTrees |-> <<>>,
     numBaseTrees |-> 0,
     cladeMapping |-> <<NewClade(setRange(0, numLeaves))>>,
     rootClade |-> 1,
     probabilitiesDirty |-> FALSE,
     entropyDirty |-> FALSE,
     numberOfTopologiesDirty |-> FALSE]

NoCCD ==
    [leafArraySize |-> -1,
     taxonNames |-> <<>>,
     taxonMapping |-> <<>>,
     baseTrees |-> <<>>,
     numBaseTrees |-> 0,
     cladeMapping |-> <<>>,
     rootClade |-> 0,
     probabilitiesDirty |-> FALSE,
     entropyDirty |-> FALSE,
     numberOfTopologiesDirty |-> FALSE]

\* cladeMapping.get(bits): a lookup by the BitSet object, which finds no clade
getCladeByObject(c, bits) == 0

\* cladeMapping.get(bits.toString()): index of the clade, 0 when absent
getClade(c, bits) ==
    LET hits == {i \in 1..Len(c.cladeMapping) :
                    BitSetToString(c.cladeMapping[i].cladeInBits) = BitSetToString(bits)}
    IN  IF hits = {} THEN 0 ELSE CHOOSE i \in hits : TRUE

addNewClade(c, bits) ==
    [c EXCEPT !.cladeMapping = Append(@, NewClade(bits))]

\* createCladePartition pushing the partition onto the first child
createCladePartitionOnChild(c, k, first, second) ==
    [c EXCEPT !.cladeMapping =
        Array([i \in 1..Len(@) |->
            LET cl == IF i = first
                      THEN [@[i] EXCEPT !.partitions =
                               Append(@, NewCladePartition(first, second))]
                      ELSE @[i]
            IN  IF i = first \/ i = second
                THEN [cl EXCEPT !.parentClades = @ \cup {k}]
                ELSE cl])]

\* Clade.createCladePartition on clade k with children first, second
createCladePartition(c, k, first, second) ==
    [c EXCEPT !.cladeMapping =
        Array([i \in 1..Len(@) |->
            LET cl == IF i = k
                      THEN [@[i] EXCEPT !.partitions =
                               Append(@, NewCladePartition(first, second))]
                      ELSE @[i]
            IN  IF i = first \/ i = second
                THEN [cl EXCEPT !.parentClades = @ \cup {k}]
                ELSE cl])]

\* cladifyKnownVertex counting a partition only when it creates it
cladifyKnownVertexCountingNew(c, bits, leaf, first, second) ==
    LET found == getClade(c, bits)
        c1 == IF found = 0 THEN addNewClade(c, bits) ELSE c
        k == IF found = 0 THEN Len(c1.cladeMapping) ELSE found
        c2 == [c1 EXCEPT !.cladeMapping[k].occurrenceCount = @ + 1]
        pf == getCladePartition(c2.cladeMapping[k], first, second)
        c3 == IF pf = 0 THEN createCladePartition(c2, k, first, second) ELSE c2
        p == Len(c3.cladeMapping[k].partitions)
        c4 == IF pf = 0
              THEN [c3 EXCEPT !.cladeMapping[k].partitions[p].occurrenceCount = @ + 1]
              ELSE c3
    IN  [ccd |-> IF leaf THEN c2 ELSE c4, clade |-> k, err |-> NoError]

\* The part of cladifyVertex after the vertex's bitset is known (lines 78-92)
cladifyKnownVertex(c, bits, leaf, first, second) ==
    LET found == getClade(c, bits)
        c1 == IF found = 0 THEN addNewClade(c, bits) ELSE c
        k == IF found = 0 THEN Len(c1.cladeMapping) ELSE found
        c2 == [c1 EXCEPT !.cladeMapping[k].occurrenceCount = @ + 1]
        pf == getCladePartition(c2.cladeMapping[k], first, second)
        c3 == IF pf = 0 THEN createCladePartition(c2, k, first, second) ELSE c2
        p == IF pf = 0 THEN Len(c3.cladeMapping[k].partitions) ELSE pf
        c4 == [c3 EXCEPT !.cladeMapping[k].partitions[p].occurrenceCount = @ + 1]
    IN  [ccd |-> IF leaf THEN c2 ELSE c4, clade |-> k, err |-> NoError]

RECURSIVE cladifyVertex(_, _)
cladifyVertex(c, vertex) ==
    IF IsUndefined(vertex) THEN [ccd |-> c, clade |-> 0, err |-> TypeError]
    ELSE IF isLeaf(vertex) THEN
        LET label == LabelOf(vertex)
            index == MapGet(c.taxonMapping, label)
        IN  IF index = -1 \/ index = UndefIndex
            THEN [ccd |-> c, clade |-> 0, err |-> TaxonUnknown(label)]
            ELSE cladifyKnownVertex(c, {index}, TRUE, 0, 0)
    ELSE
        \* r1, r2: the results of the two recursive calls, each bound once
        CHOOSE out \in
            {IF r1.err # NoError THEN r1
             ELSE CHOOSE out2 \in
                 {IF r2.err # NoError THEN r2
                  ELSE cladifyKnownVertex(r2.ccd,
                           r2.ccd.cladeMapping[r1.clade].cladeInBits
                               \cup r2.ccd.cladeMapping[r2.clade].cladeInBits,
                           FALSE, r1.clade, r2.clade)
                  : r2 \in {cladifyVertex(r1.ccd, Child(vertex, 1))}} : TRUE
             : r1 \in {cladifyVertex(c, Child(vertex, 0))}} : TRUE

cladifyTree(c, tree) ==
    cladifyVertex([c EXCEPT !.baseTrees = IF Len(@) = 0 THEN <<tree>> ELSE @], tree)

setCacheAsDirty(c) ==
    [c EXCEPT !.probabilitiesDirty = TRUE,
              !.entropyDirty = TRUE,
              !.numberOfTopologiesDirty = TRUE]

\* addTree: the CCD it leaves behind and the error it throws, if any
addTree(c, tree) ==
    CHOOSE out \in
        {IF r.err # NoError THEN [ccd |-> r.ccd, err |-> r.err]
         ELSE [ccd |-> setCacheAsDirty(r.ccd), err |-> NoError]
         : r \in {cladifyTree([c EXCEPT !.numBaseTrees = @ + 1], tree)}} : TRUE

resetCache(c) ==
    [c EXCEPT !.cladeMapping = Array([i \in 1..Len(@) |-> resetCachedValues(@[i])]),
              !.probabilitiesDirty = FALSE,
              !.entropyDirty = FALSE,
              !.numberOfTopologiesDirty = FALSE]

resetCacheIfProbabilitiesDirty(c) ==
    IF c.probabilitiesDirty THEN resetCache(c) ELSE c

\* visitCountMap.get of a clade never put in the map
NotVisited == -9

\* Rounding correction bound 1.00001
ClipBound == Rat(100001, 100000)

\* The two inner loops of computeCladeProbabilities (lines 172-188) for the
\* dequeued clade k, at position j of its (partition, child) pairs
RECURSIVE distribute(_, _, _, _, _, _)
distribute(cm, visitCountMap, queue, k, parentProbability, j) ==
    IF j > 2 * Len(cm[k].partitions)
    THEN [cm |-> cm, visitCountMap |-> visitCountMap, queue |-> queue]
    ELSE
        LET partition == cm[k].partitions[(j + 1) \div 2]
            childClade == partition.childClades[IF j % 2 = 1 THEN 1 ELSE 2]
            p0 == RMax(RZero, cm[childClade].probability)
            p1 == RAdd(p0, RMul(parentProbability, partition.ccp))
            childProbability ==
                IF RLess(ROne, p1) /\ RLess(p1, ClipBound) THEN ROne ELSE p1
            old == visitCountMap[childClade]
            childCount == (IF old = NotVisited THEN 0 ELSE old) + 1
        IN  distribute([cm EXCEPT ![childClade].probability = childProbability],
                       [visitCountMap EXCEPT ![childClade] = childCount],
                       Append(queue, childClade), k, parentProbability, j + 1)

\* The while loop of computeCladeProbabilities (lines 162-191)
RECURSIVE bfs(_, _, _)
bfs(cm, visitCountMap, queue) ==
    IF Len(queue) = 0 THEN cm
    ELSE
        LET clade == Head(queue)
            count == visitCountMap[clade]
        IN  IF count # Cardinality(cm[clade].parentClades)
            THEN bfs(cm, visitCountMap, Tail(queue))
            ELSE LET d == distribute(cm, visitCountMap, Tail(queue), clade,
                                     cm[clade].probability, 1)
                 IN  bfs(d.cm, [d.visitCountMap EXCEPT ![clade] = -1], d.queue)

\* The clades that pass the gate of line 166 and run the two inner loops,
\* in the order in which the while loop (lines 162-191) dequeues them
RECURSIVE bfsOrder(_, _, _)
bfsOrder(cm, visitCountMap, queue) ==
    IF Len(queue) = 0 THEN <<>>
    ELSE
        LET clade == Head(queue)
            count == visitCountMap[clade]
        IN  IF count # Cardinality(cm[clade].parentClades)
            THEN bfsOrder(cm, visitCountMap, Tail(queue))
            ELSE LET d == distribute(cm, visitCountMap, Tail(queue), clade,
                                     cm[clade].probability, 1)
                 IN  <<clade>> \o bfsOrder(d.cm, [d.visitCountMap EXCEPT ![clade] = -1],
                                           d.queue)

\* The clades that distribute their probability during computeCladeProbabilities
distributionOrder(c) ==
    LET c1 == resetCacheIfProbabilitiesDirty(c)
        n == Len(c1.cladeMapping)
        cm0 == Array([i \in 1..n |->
                   [c1.cladeMapping[i] EXCEPT !.probability =
                       IF i = c1.rootClade THEN ROne ELSE RMinusOne]])
        vc0 == Array([i \in 1..n |-> IF i = c1.rootClade THEN 0 ELSE NotVisited])
    IN  bfsOrder(cm0, vc0, <<c1.rootClade>>)

computeCladeProbabilities(c) ==
    LET c1 == resetCacheIfProbabilitiesDirty(c)
        n == Len(c1.cladeMapping)
        cm0 == Array([i \in 1..n |->
                   [c1.cladeMapping[i] EXCEPT !.probability =
                       IF i = c1.rootClade THEN ROne ELSE RMinusOne]])
        vc0 == Array([i \in 1..n |-> IF i = c1.rootClade THEN 0 ELSE NotVisited])
    IN  [c1 EXCEPT !.cladeMapping = bfs(cm0, vc0, <<c1.rootClade>>)]

computeCladeProbabilitiesIfDirty(c) ==
    LET c1 == resetCacheIfProbabilitiesDirty(c)
    IN  IF RLess(c1.cladeMapping[c1.rootClade].probability, RZero)
        THEN computeCladeProbabilities(c1)
        ELSE c1

\* CladePartition.getProbability
partitionProbability(cm, k, p) == RMul(cm[k].probability, p.ccp)

RECURSIVE RSum(_, _)
RSum(f, S) ==
    IF S = {} THEN RZero
    ELSE LET x == CHOOSE y \in S : TRUE
         IN  RAdd(f[x], RSum(f, S \ {x}))

\* The sum of getEntropy, -(sum of probability * ln ccp), as the set of
\* <<ccp, total probability weight>> of its non-zero terms
entropyOf(cm) ==
    LET slots == UNION {{<<k, i>> : i \in 1..Len(cm[k].partitions)} : k \in 1..Len(cm)}
        live == {s \in slots : cm[s[1]].partitions[s[2]].logCCP # NegInf}
        w == [s \in live |-> partitionProbability(cm, s[1], cm[s[1]].partitions[s[2]])]
        qs == {cm[s[1]].partitions[s[2]].logCCP : s \in live}
        total(q) == RSum(w, {s \in live : cm[s[1]].partitions[s[2]].logCCP = q})
    IN  {<<q, total(q)>> : q \in {r \in qs : r # LogZero /\ total(r) # RZero}}

\* partitionSum += 1 in place of += partition.getNumberOfOccurrences()
numberOfPartitions(partitions) == Len(partitions)

RECURSIVE sumOfOccurrences(_)
sumOfOccurrences(partitions) ==
    IF Len(partitions) = 0 THEN 0
    ELSE Head(partitions).occurrenceCount + sumOfOccurrences(Tail(partitions))

\* CCD1.initialize
initialize(c) ==
    LET norm(clade) ==
            LET partitionSum == sumOfOccurrences(clade.partitions)
            IN  [clade EXCEPT !.partitions =
                    Array([i \in 1..Len(@) |->
                        setCCP(@[i],
                               IF partitionSum > 0
                               THEN Rat(@[i].occurrenceCount, partitionSum)
                               ELSE RZero)])]
    IN  [c EXCEPT !.cladeMapping = Array([i \in 1..Len(@) |-> norm(@[i])]),
                  !.entropyDirty = TRUE,
                  !.numberOfTopologiesDirty = TRUE]

\* The inner loop without the comparison totalLogCCP > maxLogCCP
RECURSIVE lastOverPartitions(_, _, _, _)
lastOverPartitions(cm, k, i, best) ==
    IF i > Len(cm[k].partitions) THEN best
    ELSE
        LET partition == cm[k].partitions[i]
            valid == ~(partition.logCCP = NegInf \/ RLeq(partition.ccp, RZero))
            totalLogCCP ==
                LogAdd(partition.logCCP,
                       LogAdd(cm[partition.childClades[1]].maxSubtreeCCP,
                              cm[partition.childClades[2]].maxSubtreeCCP))
        IN  lastOverPartitions(cm, k, i + 1,
                IF valid THEN <<totalLogCCP, i>> ELSE best)

\* One partition of the inner loop of getMaxLogTreeProbability (lines 359-381):
\* best is <<maxLogCCP, maxPartition>>
RECURSIVE maxOverPartitions(_, _, _, _)
maxOverPartitions(cm, k, i, best) ==
    IF i > Len(cm[k].partitions) THEN best
    ELSE
        LET partition == cm[k].partitions[i]
            valid == ~(partition.logCCP = NegInf \/ RLeq(partition.ccp, RZero))
            totalLogCCP ==
                LogAdd(partition.logCCP,
                       LogAdd(cm[partition.childClades[1]].maxSubtreeCCP,
                              cm[partition.childClades[2]].maxSubtreeCCP))
        IN  maxOverPartitions(cm, k, i + 1,
                IF valid /\ RLess(best[1], totalLogCCP) THEN <<totalLogCCP, i>> ELSE best)

\* One pass over the clade list (lines 332-401) from clade i on
RECURSIVE relaxPass(_, _, _)
relaxPass(cm, i, changed) ==
    IF i > Len(cm) THEN [cm |-> cm, changed |-> changed]
    ELSE IF RLess(NegInf, cm[i].maxSubtreeCCP) \/ CladeIsLeaf(cm[i])
    THEN relaxPass(cm, i + 1, changed)
    ELSE
        LET allChildrenComputed ==
                \A p \in 1..Len(cm[i].partitions) : \A s \in 1..2 :
                    cm[cm[i].partitions[p].childClades[s]].maxSubtreeCCP # NegInf
        IN  IF allChildrenComputed /\ Len(cm[i].partitions) > 0
            THEN LET best == maxOverPartitions(cm, i, 1, <<NegInf, 0>>)
                 IN  relaxPass([cm EXCEPT ![i].maxSubtreeCCP = best[1],
                                          ![i].maxSubtreeCCPPartition = best[2]],
                               i + 1, TRUE)
            ELSE relaxPass(cm, i + 1, changed)

\* while (changed && iterations < maxIterations)
RECURSIVE relax(_, _, _)
relax(cm, changed, iterations) ==
    IF changed /\ iterations < Len(cm)
    THEN LET r == relaxPass(cm, 1, FALSE)
         IN  relax(r.cm, r.changed, iterations + 1)
    ELSE [cm |-> cm, iterations |-> iterations]

\* getMaxLogTreeProbability: the CCD it leaves, the value, the passes made
getMaxLogTreeProbability(c) ==
    LET cm0 == Array([i \in 1..Len(c.cladeMapping) |->
                   [c.cladeMapping[i] EXCEPT
                       !.maxSubtreeCCP =
                           IF CladeIsLeaf(c.cladeMapping[i]) THEN LogZero ELSE NegInf,
                       !.maxSubtreeCCPPartition = 0]])
        r == relax(cm0, TRUE, 0)
    IN  [ccd |-> [c EXCEPT !.cladeMapping = r.cm],
         value |-> r.cm[c.rootClade].maxSubtreeCCP,
         iterations |-> r.iterations]

\* getMaxTreeProbability: Math.exp of the maximum log probability
getMaxTreeProbability(c) ==
    CHOOSE out \in
        {[ccd |-> r.ccd, value |-> MathExp(r.value)]
         : r \in {getMaxLogTreeProbability(c)}} : TRUE

\* getLeafClade testing if (index) in place of if (index !== undefined)
getLeafCladeIfTruthy(c, leafNode) ==
    LET index == MapGet(c.taxonMapping, LabelOf(leafNode))
    IN  IF index # UndefIndex /\ index # 0 THEN getClade(c, {index}) ELSE 0

\* getLeafClade: index of the leaf's clade, 0 for null / undefined
getLeafClade(c, leafNode) ==
    LET index == MapGet(c.taxonMapping, LabelOf(leafNode))
    IN  IF index # UndefIndex THEN getClade(c, {index}) ELSE 0

\* Bits contributed by child k of a node (lines 446-468)
childBits(c, node, k, childClade) ==
    IF childClade # 0 THEN c.cladeMapping[childClade].cladeInBits
    ELSE LET index == MapGet(c.taxonMapping, LabelOf(Child(node, k)))
         IN  IF index # UndefIndex THEN {index} ELSE {}

\* The node's clade and partition, once the children's results r1, r2 are known
nodeLogProb(c, node, r1, r2) ==
    LET bits == childBits(c, node, 0, r1.clade) \cup childBits(c, node, 1, r2.clade)
        clade == getClade(c, bits)
        first == IF r1.clade # 0 THEN r1.clade ELSE getLeafClade(c, Child(node, 0))
        second == IF r2.clade # 0 THEN r2.clade ELSE getLeafClade(c, Child(node, 1))
        partition == getCladePartition(c.cladeMapping[clade], first, second)
    IN  IF clade = 0
        THEN [clade |-> 0, logProb |-> NegInf, err |-> NoError]
        ELSE IF r1.clade # 0 \/ r2.clade # 0
        THEN IF partition = 0
             THEN [clade |-> clade, logProb |-> NegInf, err |-> NoError]
             ELSE [clade |-> clade,
                   logProb |-> LogAdd(r2.logProb,
                                      c.cladeMapping[clade].partitions[partition].logCCP),
                   err |-> NoError]
        ELSE [clade |-> clade, logProb |-> r2.logProb, err |-> NoError]

\* calculateNodeLogProb with the running logProb threaded through
RECURSIVE calculateNodeLogProb(_, _, _)
calculateNodeLogProb(c, node, logProb) ==
    IF IsUndefined(node) THEN [clade |-> 0, logProb |-> logProb, err |-> TypeError]
    ELSE IF isLeaf(node) THEN [clade |-> 0, logProb |-> logProb, err |-> NoError]
    ELSE
        \* r1, r2: the results of the two recursive calls, each bound once
        CHOOSE out \in
            {IF r1.err # NoError THEN r1
             ELSE CHOOSE out2 \in
                 {IF r2.err # NoError THEN r2 ELSE nodeLogProb(c, node, r1, r2)
                  : r2 \in {calculateNodeLogProb(c, Child(node, 1), r1.logProb)}} : TRUE
             : r1 \in {calculateNodeLogProb(c, Child(node, 0), logProb)}} : TRUE

\* getTreeLogProbability: the CCD it leaves, the value, the error thrown
getTreeLogProbability(c, tree) ==
    CHOOSE out \in
        {CHOOSE out2 \in
             {[ccd |-> c1, value |-> r.logProb, err |-> r.err]
              : r \in {calculateNodeLogProb(c1, tree, LogZero)}} : TRUE
         : c1 \in {computeCladeProbabilitiesIfDirty(c)}} : TRUE

\* Labels of all leaves of all trees of a list
allTaxa(trees) == UNION {TipLabels(trees[i]) : i \in 1..Len(trees)}

\* Math.floor(trees.length * burnin) for burnin = <<n, d>>
burninCount(trees, burnin) == (Len(trees) * burnin[1]) \div burnin[2]

\* trees.slice(burninCount)
treesToUse(trees, burnin) ==
    SubSeq(trees, burninCount(trees, burnin) + 1, Len(trees))

RECURSIVE addTrees(_, _, _)
addTrees(c, trees, i) ==
    IF i > Len(trees) THEN [ccd |-> c, err |-> NoError]
    ELSE CHOOSE out \in
             {IF r.err # NoError THEN r ELSE addTrees(r.ccd, trees, i + 1)
              : r \in {addTree(c, trees[i])}} : TRUE

\* fromTrees returning the CCD as the last addTree left it, without initialize
fromTreesAccumulating(trees, burnin) ==
    IF Len(trees) = 0 THEN [ccd |-> NoCCD, err |-> NoTrees]
    ELSE
        LET names == sortedTaxa(allTaxa(trees))
        IN  CHOOSE out \in
                {IF r.err # NoError THEN [ccd |-> NoCCD, err |-> r.err]
                 ELSE [ccd |-> r.ccd, err |-> NoError]
                 : r \in {addTrees(CCD1(Len(names), names),
                                   treesToUse(trees, burnin), 1)}} : TRUE

\* CCD1.fromTrees: the CCD returned, or the error thrown
fromTrees(trees, burnin) ==
    IF Len(trees) = 0 THEN [ccd |-> NoCCD, err |-> NoTrees]
    ELSE
        LET names == sortedTaxa(allTaxa(trees))
        IN  CHOOSE out \in
                {IF r.err # NoError THEN [ccd |-> NoCCD, err |-> r.err]
                 ELSE [ccd |-> initialize(r.ccd), err |-> NoError]
                 : r \in {addTrees(CCD1(Len(names), names),
                                   treesToUse(trees, burnin), 1)}} : TRUE

----------------------------------------------------------------------------
(* CCD1.fromTreesAsync: the call is suspended at each await of the         *)
(* progress callback.  st is the frame of the call: pc, the CCD under      *)
(* construction, the trees to use, the number of trees added, whether an   *)
(* addTree is not yet followed by initialize, whether the callback threw,   *)
(* and the arguments of the invocations of the callback so far.            *)

CallbackError == [kind |-> "CallbackError", label |-> ""]

\* What an invocation of the progress callback does
Outcomes == {"resolve", "throw"}

\* asyncStart without the burn-in of lines 84-86
asyncStartAllTrees(trees, burnin) ==
    IF Len(trees) = 0
    THEN [pc |-> "rejected", err |-> NoTrees, ccd |-> NoCCD, trees |-> <<>>,
          i |-> 0, pendingAdd |-> FALSE, threw |-> FALSE, calls |-> <<>>]
    ELSE LET names == sortedTaxa(allTaxa(trees))
         IN  [pc |-> "loop", err |-> NoError, ccd |-> CCD1(Len(names), names),
              trees |-> trees,
              i |-> 0, pendingAdd |-> FALSE, threw |-> FALSE, calls |-> <<>>]

\* Lines 57-86: up to the loop
asyncStart(trees, burnin) ==
    IF Len(trees) = 0
    THEN [pc |-> "rejected", err |-> NoTrees, ccd |-> NoCCD, trees |-> <<>>,
          i |-> 0, pendingAdd |-> FALSE, threw |-> FALSE, calls |-> <<>>]
    ELSE LET names == sortedTaxa(allTaxa(trees))
         IN  [pc |-> "loop", err |-> NoError, ccd |-> CCD1(Len(names), names),
              trees |-> treesToUse(trees, burnin),
              i |-> 0, pendingAdd |-> FALSE, threw |-> FALSE, calls |-> <<>>]

\* Lines 89-94: one iteration, the callback awaited and then the tree added
asyncLoop(st, outcome) ==
    LET called == [st EXCEPT !.calls = Append(@, <<st.i + 1, Len(st.trees)>>)]
    IN  IF outcome = "throw"
        THEN [called EXCEPT !.pc = "rejected", !.err = CallbackError, !.threw = TRUE]
        ELSE CHOOSE out \in
                 {IF r.err # NoError
                  THEN [called EXCEPT !.pc = "rejected", !.err = r.err, !.ccd = r.ccd,
                                      !.pendingAdd = TRUE]
                  ELSE [called EXCEPT !.ccd = r.ccd, !.i = @ + 1, !.pendingAdd = TRUE]
                  : r \in {addTree(st.ccd, st.trees[st.i + 1])}} : TRUE

\* The last callback swallowed: the CCD is returned as the loop left it
asyncFinishAnyway(st, outcome) ==
    LET called == [st EXCEPT !.calls = Append(@, <<Len(st.trees), Len(st.trees)>>)]
    IN  IF outcome = "throw"
        THEN [called EXCEPT !.pc = "returned", !.threw = TRUE]
        ELSE [called EXCEPT !.pc = "returned", !.ccd = initialize(@),
                            !.pendingAdd = FALSE]

\* Lines 96-103: the last callback awaited, initialize, return
asyncFinish(st, outcome) ==
    LET called == [st EXCEPT !.calls = Append(@, <<Len(st.trees), Len(st.trees)>>)]
    IN  IF outcome = "throw"
        THEN [called EXCEPT !.pc = "rejected", !.err = CallbackError, !.threw = TRUE]
        ELSE [called EXCEPT !.pc = "returned", !.ccd = initialize(@),
                            !.pendingAdd = FALSE]

\* The call without a progress callback: nothing is invoked, nothing awaited
RECURSIVE asyncRun(_)
asyncRun(st) ==
    IF st.pc # "loop" THEN [st EXCEPT !.calls = <<>>]
    ELSE IF st.i < Len(st.trees)
         THEN CHOOSE out \in {asyncRun(r) : r \in {asyncLoop(st, "resolve")}} : TRUE
         ELSE [asyncFinish(st, "resolve") EXCEPT !.calls = <<>>]

----------------------------------------------------------------------------
(* IEEE-754 double arithmetic on the values the ccps take.                 *)
(* A double x in [2^-7, 2) is <<hi, mid, lo>> with                         *)
(* x = (hi * 2^40 + mid * 2^20 + lo) * 2^-60.                              *)

Limb == 1048576

\* Units of 2^-60 in the last place of a double whose top limb is hi
RECURSIVE ulpOf(_)
ulpOf(hi) == IF hi >= Limb THEN 256 ELSE ulpOf(2 * hi) \div 2

\* Round to 53 significant bits, ties to even; sticky: bits below 2^-60 set
round53(hi, mid, lo, sticky) ==
    LET ulp == ulpOf(hi)
        low == lo % ulp
        half == ulp \div 2
        odd == (lo \div ulp) % 2 = 1
        up == low > half \/ (low = half /\ (sticky \/ odd))
        lo1 == lo - low + (IF up THEN ulp ELSE 0)
        mid1 == mid + (lo1 \div Limb)
    IN  <<hi + (mid1 \div Limb), mid1 % Limb, lo1 % Limb>>

\* The double k / n for integers 0 < k <= n (ccd1.js line 129)
Dbl(k, n) ==
    LET hi == (k * Limb) \div n
        r1 == (k * Limb) % n
        mid == (r1 * Limb) \div n
        r2 == (r1 * Limb) % n
        lo == (r2 * Limb) \div n
        r3 == (r2 * Limb) % n
    IN  round53(hi, mid, lo, r3 # 0)

DblZero == <<0, 0, 0>>
DblOne == <<Limb, 0, 0>>

\* sum += x in double arithmetic
FAdd(x, y) ==
    IF x = DblZero THEN y
    ELSE LET lo == x[3] + y[3]
             mid == x[2] + y[2] + (lo \div Limb)
             hi == x[1] + y[1] + (mid \div Limb)
         IN  round53(hi, mid % Limb, lo % Limb, FALSE)

\* let sum = 0; for (const partition of this.partitions) sum += partition.ccp
RECURSIVE sumOfCCPs(_, _)
sumOfCCPs(partitions, sum) ==
    IF Len(partitions) = 0 THEN sum
    ELSE sumOfCCPs(Tail(partitions),
                   FAdd(sum, Dbl(Head(partitions).ccp[1], Head(partitions).ccp[2])))

\* |x - 1| <= 1e-12, where 1e-12 is 2^20 + 104345 units of 2^-60
WithinTolerance(x) ==
    \/ x[1] = Limb /\ (x[2] = 0 \/ (x[2] = 1 /\ x[3] <= 104345))
    \/ x[1] = Limb - 1
       /\ (x[2] = Limb - 1 \/ (x[2] = Limb - 2 /\ x[3] >= Limb - 104345))

----------------------------------------------------------------------------
(* Entropies as real numbers.                                              *)
(* A ccp is a quotient of small counts, so every entropy the program       *)
(* computes is c1 + c2 ln 2 + c3 ln 3 + c5 ln 5 + c7 ln 7 with rational    *)
(* coefficients: a real is the tuple of these five coefficients.  The      *)
(* logarithms of distinct primes are linearly independent over the         *)
(* rationals, so a real is 0 iff all its coefficients are.                 *)

Primes == <<2, 3, 5, 7>>

Basis == 1..(Len(Primes) + 1)

RealZero == Array([i \in Basis |-> RZero])

\* The rational r as a real
RealOf(r) == [RealZero EXCEPT ![1] = r]

RealAdd(x, y) == Array([i \in Basis |-> RAdd(x[i], y[i])])

RealScale(r, x) == Array([i \in Basis |-> RMul(r, x[i])])

RealSub(x, y) == RealAdd(x, RealScale(RMinusOne, y))

\* Exponent of the prime p in n >= 1
RECURSIVE Valuation(_, _)
Valuation(n, p) == IF n % p # 0 THEN 0 ELSE 1 + Valuation(n \div p, p)

\* Math.log of the positive rational q
RealLog(q) ==
    Array([i \in Basis |->
        IF i = 1 THEN RZero
        ELSE Rat(Valuation(q[1], Primes[i - 1]) - Valuation(q[2], Primes[i - 1]), 1)])

\* 1, ln 2, ln 3, ln 5, ln 7 in units of 10^-4, rounded down and up
BasisLow == <<10000, 6931, 10986, 16094, 19459>>
BasisHigh == <<10000, 6932, 10987, 16095, 19460>>

LCM(a, b) == (a * b) \div GCD(a, b)

\* Sign of a real: -1, 0 or 1; Unsigned when the enclosure of width 10^-4 per
\* logarithm does not decide it
Unsigned == 2

RealSign(x) ==
    IF x = RealZero THEN 0
    ELSE
        LET den == LCM(LCM(LCM(x[1][2], x[2][2]), LCM(x[3][2], x[4][2])), x[5][2])
            num == [i \in Basis |-> x[i][1] * (den \div x[i][2])]
            low == [i \in Basis |-> num[i] * (IF num[i] >= 0 THEN BasisLow[i] ELSE BasisHigh[i])]
            high == [i \in Basis |-> num[i] * (IF num[i] >= 0 THEN BasisHigh[i] ELSE BasisLow[i])]
            lower == low[1] + low[2] + low[3] + low[4] + low[5]
            upper == high[1] + high[2] + high[3] + high[4] + high[5]
        IN  IF lower > 0 THEN 1 ELSE IF upper < 0 THEN -1 ELSE Unsigned

\* x < y and x > y on reals
RealLess(x, y) == RealSign(RealSub(x, y)) = -1

RealGreater(x, y) == RealSign(RealSub(x, y)) = 1

\* The value of getEntropy from its terms: -(sum of weight * ln ccp)
RECURSIVE entropyValue(_)
entropyValue(terms) ==
    IF terms = {} THEN RealZero
    ELSE LET t == CHOOSE u \in terms : TRUE
         IN  RealSub(entropyValue(terms \ {t}), RealScale(t[2], RealLog(t[1])))

----------------------------------------------------------------------------
(* Dissonance *)

NoTreeSets == [kind |-> "NoTreeSets", label |-> ""]
EmptyTreeSets == [kind |-> "EmptyTreeSets", label |-> ""]
NotEnoughTrees == [kind |-> "NotEnoughTrees", label |-> ""]

\* AbstractCCD.getEntropy: the CCD it leaves and the value
getEntropy(c) ==
    CHOOSE out \in
        {[ccd |-> r, value |-> entropyValue(entropyOf(r.cladeMapping))]
         : r \in {computeCladeProbabilitiesIfDirty(c)}} : TRUE

\* x / y for y > 0, kept as the pair
RealDiv(x, y) == [num |-> x, den |-> y]

\* The number 0 as a quotient
QuotZero == RealDiv(RealZero, RealOf(ROne))

\* Sign of q - tn / td
QuotCompare(q, tn, td) ==
    RealSign(RealSub(RealScale(Rat(td, 1), q.num), RealScale(Rat(tn, 1), q.den)))

\* Math.min(...treeSets.map(set => set.length))
RECURSIVE minLength(_)
minLength(treeSets) ==
    IF Len(treeSets) = 1 THEN Len(treeSets[1])
    ELSE LET m == minLength(Tail(treeSets))
         IN  IF Len(treeSets[1]) < m THEN Len(treeSets[1]) ELSE m

\* The labels collected over all trees of all sets (lines 26-35)
taxaOfSets(treeSets) == UNION {allTaxa(treeSets[j]) : j \in 1..Len(treeSets)}

RECURSIVE RealSum(_)
RealSum(values) ==
    IF Len(values) = 0 THEN RealZero
    ELSE RealAdd(Head(values), RealSum(Tail(values)))

\* Math.max(...values) and Math.min(...values) of a non-empty array
RECURSIVE RealMaxOf(_)
RealMaxOf(values) ==
    IF Len(values) = 1 THEN values[1]
    ELSE CHOOSE out \in
             {IF RealGreater(values[1], m) THEN values[1] ELSE m
              : m \in {RealMaxOf(Tail(values))}} : TRUE

RECURSIVE RealMinOf(_)
RealMinOf(values) ==
    IF Len(values) = 1 THEN values[1]
    ELSE CHOOSE out \in
             {IF RealLess(values[1], m) THEN values[1] ELSE m
              : m \in {RealMinOf(Tail(values))}} : TRUE

\* The state of the loop of calculateDissonance
DissonanceStart(numChains, numLeaves, names) ==
    [ccds |-> Array([j \in 1..numChains |-> CCD1(numLeaves, names)]),
     combinedCCD |-> CCD1(numLeaves, names),
     entropies |-> Array([j \in 1..(numChains + 1) |-> <<>>]),
     dissonanceValues |-> <<>>,
     weightedEntropySum |-> RealZero,
     treesIngested |-> 0,
     err |-> NoError]

\* One chain of the inner loop (lines 74-84): tree i of chain j goes into the
\* chain's CCD, the chain's entropy is recorded, the tree goes into the
\* combined CCD
chainStep(st, tree, j, numChains) ==
    CHOOSE out \in
        {IF r.err # NoError THEN [st EXCEPT !.err = r.err]
         ELSE CHOOSE out2 \in
                  {CHOOSE out3 \in
                       {IF b.err # NoError
                        THEN [st EXCEPT !.err = b.err,
                                        !.ccds[j] = e.ccd,
                                        !.entropies[j] = Append(@, e.value),
                                        !.treesIngested = @ + 1]
                        ELSE [st EXCEPT !.ccds[j] = e.ccd,
                                        !.entropies[j] = Append(@, e.value),
                                        !.weightedEntropySum =
                                            RealAdd(@, RealScale(Rat(1, numChains), e.value)),
                                        !.combinedCCD = b.ccd,
                                        !.treesIngested = @ + 2]
                        : b \in {addTree(st.combinedCCD, tree)}} : TRUE
                   : e \in {getEntropy(initialize(r.ccd))}} : TRUE
         : r \in {addTree(st.ccds[j], tree)}} : TRUE

RECURSIVE chainLoop(_, _, _, _)
chainLoop(st, treeSets, i, j) ==
    IF j > Len(treeSets) \/ st.err # NoError THEN st
    ELSE CHOOSE out \in
             {chainLoop(r, treeSets, i, j + 1)
              : r \in {chainStep(st, treeSets[j][i], j, Len(treeSets))}} : TRUE

\* treeStep reading the combined entropy without the initialize of line 88
treeStepStale(st, treeSets, i) ==
    CHOOSE out \in
        {IF r.err # NoError THEN r
         ELSE CHOOSE out2 \in
                  {[r EXCEPT !.combinedCCD = e.ccd,
                             !.entropies[Len(treeSets) + 1] = Append(@, e.value),
                             !.dissonanceValues =
                                 Append(@, RealSub(e.value, r.weightedEntropySum))]
                   : e \in {getEntropy(r.combinedCCD)}} : TRUE
         : r \in {chainLoop([st EXCEPT !.weightedEntropySum = RealZero],
                            treeSets, i, 1)}} : TRUE

\* One iteration of the outer loop (lines 65-99)
treeStep(st, treeSets, i) ==
    CHOOSE out \in
        {IF r.err # NoError THEN r
         ELSE CHOOSE out2 \in
                  {[r EXCEPT !.combinedCCD = e.ccd,
                             !.entropies[Len(treeSets) + 1] = Append(@, e.value),
                             !.dissonanceValues =
                                 Append(@, RealSub(e.value, r.weightedEntropySum))]
                   : e \in {getEntropy(initialize(r.combinedCCD))}} : TRUE
         : r \in {chainLoop([st EXCEPT !.weightedEntropySum = RealZero],
                            treeSets, i, 1)}} : TRUE

RECURSIVE treeLoop(_, _, _, _)
treeLoop(st, treeSets, i, numTrees) ==
    IF i > numTrees \/ st.err # NoError THEN st
    ELSE CHOOSE out \in
             {treeLoop(r, treeSets, i + 1, numTrees)
              : r \in {treeStep(st, treeSets, i)}} : TRUE

\* What calculateDissonance throws: nothing was created
DissonanceError(err) ==
    [err |-> err, numChains |-> 0, numTrees |-> 0, ccdsCreated |-> 0,
     treesIngested |-> 0]

\* avgFinalEntropy (lines 108-111)
RECURSIVE avgFinalEntropyOf(_, _, _)
avgFinalEntropyOf(entropies, numChains, i) ==
    IF i > numChains THEN RealZero
    ELSE RealAdd(RealScale(Rat(1, numChains), entropies[i][Len(entropies[i])]),
                 avgFinalEntropyOf(entropies, numChains, i + 1))

\* The summary statistics and the value returned (lines 102-127)
DissonanceResult(st, numChains, numTrees) ==
    LET finalDissonance == st.dissonanceValues[Len(st.dissonanceValues)]
        avgFinalEntropy == avgFinalEntropyOf(st.entropies, numChains, 1)
    IN  [err |-> NoError,
         numChains |-> numChains,
         numTrees |-> numTrees,
         finalDissonance |-> finalDissonance,
         meanDissonance |-> RealScale(Rat(1, Len(st.dissonanceValues)),
                                      RealSum(st.dissonanceValues)),
         maxDissonance |-> RealMaxOf(st.dissonanceValues),
         minDissonance |-> RealMinOf(st.dissonanceValues),
         relativeDissonance |->
             IF RealSign(avgFinalEntropy) = 1
             THEN RealDiv(finalDissonance, avgFinalEntropy) ELSE QuotZero,
         avgFinalEntropy |-> avgFinalEntropy,
         dissonanceValues |-> st.dissonanceValues,
         entropies |-> st.entropies,
         chainCCDs |-> st.ccds,
         combinedCCD |-> st.combinedCCD,
         ccdsCreated |-> numChains + 1,
         treesIngested |-> st.treesIngested]

\* calculateDissonance: the value returned, or the error thrown
calculateDissonance(treeSets) ==
    IF Len(treeSets) = 0 THEN DissonanceError(NoTreeSets)
    ELSE IF minLength(treeSets) = 0 THEN DissonanceError(EmptyTreeSets)
    ELSE
        LET names == sortedTaxa(taxaOfSets(treeSets))
        IN  CHOOSE out \in
                {IF st.err # NoError
                 THEN [DissonanceError(st.err) EXCEPT
                           !.ccdsCreated = Len(treeSets) + 1,
                           !.treesIngested = st.treesIngested]
                 ELSE DissonanceResult(st, Len(treeSets), minLength(treeSets))
                 : st \in {treeLoop(DissonanceStart(Len(treeSets), Len(names), names),
                                    treeSets, 1, minLength(treeSets))}} : TRUE

\* calculateDissonance as the event loop sees it.  fr is the frame of the
\* call: pc is the await it is suspended at ("callback": the progress
\* callback at the top of iteration i, line 68; "timeout": the setTimeout
\* promise at the end of iteration i, line 98) or how it was left, st the
\* state of the loop, entered the number of iterations begun.
dissonanceFrame(pc, err, st, treeSets, callback) ==
    [pc |-> pc, err |-> err, st |-> st, treeSets |-> treeSets,
     numTrees |-> IF pc = "rejected" THEN 0 ELSE minLength(treeSets),
     callback |-> callback, i |-> 0, entered |-> 0,
     result |-> DissonanceError(err)]

\* Lines 65-99 from the top of iteration i (dissonanceTop) and from behind
\* its first await (dissonanceBody) up to the next await, the return or the
\* error thrown; i counts from 0 as in the code
RECURSIVE dissonanceTop(_, _)
RECURSIVE dissonanceBody(_, _)
dissonanceTop(fr, i) ==
    IF i >= fr.numTrees
    THEN [fr EXCEPT !.pc = "returned", !.i = i,
                    !.result = DissonanceResult(fr.st, Len(fr.treeSets), fr.numTrees)]
    ELSE IF fr.callback
         THEN [fr EXCEPT !.pc = "callback", !.i = i]
         ELSE dissonanceBody(fr, i)

dissonanceBody(fr, i) ==
    CHOOSE out \in
        {IF st.err # NoError
         THEN [fr EXCEPT !.pc = "rejected", !.err = st.err, !.st = st, !.i = i,
                         !.entered = @ + 1]
         ELSE IF i % 10 = 0
              THEN [fr EXCEPT !.pc = "timeout", !.st = st, !.i = i, !.entered = @ + 1]
              ELSE dissonanceTop([fr EXCEPT !.st = st, !.entered = @ + 1], i + 1)
         : st \in {treeStep(fr.st, fr.treeSets, i + 1)}} : TRUE

\* Lines 14-68: the call up to its first await
dissonanceBegin(treeSets, callback) ==
    IF Len(treeSets) = 0
    THEN dissonanceFrame("rejected", NoTreeSets, DissonanceStart(0, 0, <<>>),
                         treeSets, callback)
    ELSE IF minLength(treeSets) = 0
    THEN dissonanceFrame("rejected", EmptyTreeSets, DissonanceStart(0, 0, <<>>),
                         treeSets, callback)
    ELSE LET names == sortedTaxa(taxaOfSets(treeSets))
         IN  dissonanceTop(
                 dissonanceFrame("loop", NoError,
                                 DissonanceStart(Len(treeSets), Len(names), names),
                                 treeSets, callback), 0)

\* The awaited promise settles and the call runs on to its next await
dissonanceResume(fr, outcome) ==
    IF outcome = "throw"
    THEN [fr EXCEPT !.pc = "rejected", !.err = CallbackError]
    ELSE IF fr.pc = "callback" THEN dissonanceBody(fr, fr.i)
         ELSE dissonanceTop(fr, fr.i + 1)

\* The bounds of the grades of interpretWithinChainDissonance, as quotients
Thresholds == << <<1, 1000>>, <<1, 100>>, <<2, 100>>, <<5, 100>>, <<10, 100>>,
                 <<20, 100>> >>

\* The grades: each is the text before " - " of the string returned
Grades == << "Exceptional mixing", "Excellent mixing", "Very good mixing",
             "Good mixing", "Moderate mixing", "Poor mixing", "Very poor mixing" >>

\* The chain of comparisons of interpretWithinChainDissonance (lines 202-216)
RECURSIVE gradeFrom(_, _)
gradeFrom(relativeDissonance, i) ==
    IF i > Len(Thresholds) THEN Grades[i]
    ELSE IF QuotCompare(relativeDissonance, Thresholds[i][1], Thresholds[i][2]) = -1
         THEN Grades[i]
         ELSE gradeFrom(relativeDissonance, i + 1)

interpretWithinChainDissonance(dissonance, averageEntropy) ==
    gradeFrom(IF RealSign(averageEntropy) = 1
              THEN RealDiv(dissonance, averageEntropy)
              ELSE RealDiv(dissonance, RealOf(ROne)), 1)

\* end of block i of numSplits, counted from 0: all blocks but the last end at a
\* multiple of splitSize
blockEndEven(length, numSplits, splitSize, i) == (i + 1) * splitSize

\* end of block i of numSplits, counted from 0 (line 148)
blockEnd(length, numSplits, splitSize, i) ==
    IF i = numSplits - 1 THEN length ELSE (i + 1) * splitSize

\* trees.slice(start, end)
slice(trees, start, end) == SubSeq(trees, start + 1, end)

\* The blocks of calculateWithinChainDissonance (lines 144-152)
splitTrees(trees, numSplits) ==
    LET splitSize == Len(trees) \div numSplits
    IN  Array([i \in 1..numSplits |->
            slice(trees, (i - 1) * splitSize,
                  blockEnd(Len(trees), numSplits, splitSize, i - 1))])

\* one tree per block is enough
enoughTreesForOneEach(length, numSplits) == ~(length < numSplits)

\* the guard of line 140 passes
enoughTrees(length, numSplits) == ~(length < numSplits * 2)

\* calculateWithinChainDissonance: the value returned (with the blocks handed
\* to calculateDissonance), or the error thrown.  The comparison of CCD
\* probabilities and the note for hard problems need an average entropy above
\* 10, which trees of up to MaxTaxa taxa do not reach.
calculateWithinChainDissonance(trees, numSplits) ==
    IF ~enoughTrees(Len(trees), numSplits)
    THEN DissonanceError(NotEnoughTrees)
    ELSE CHOOSE out \in
             {IF r.err # NoError THEN r
              ELSE [treeSets |-> splitTrees(trees, numSplits),
                    splitSize |-> Len(trees) \div numSplits,
                    numSplits |-> numSplits,
                    interpretation |->
                        interpretWithinChainDissonance(r.finalDissonance,
                                                       r.avgFinalEntropy)]
                   @@ r
              : r \in {calculateDissonance(splitTrees(trees, numSplits))}} : TRUE

----------------------------------------------------------------------------
(* BitSet storage: a Uint32Array of 32-bit words.  A word is the set of    *)
(* the positions 0..31 of its one bits: | is union, & is intersection,     *)
(* 1 << k is {k}, ~0 << k is k..31 and w >>> k moves every bit down by k.  *)
(* A string is the sequence of its characters.                             *)

WordBits == 32

\* w >>> k
ShiftRight(w, k) == {p - k : p \in {q \in w : q >= k}}

\* w & (2^k - 1), the masks 0xFFFF, 0xFF, 0xF, 0x3 and 0x1
LowBits(w, k) == w \cap (0..(k - 1))

\* Math.floor(size / 32) in place of Math.ceil: the whole words below size
wordCountFloor(size) == size \div WordBits

\* Math.ceil(size / 32)
wordCount(size) == (size + WordBits - 1) \div WordBits

\* new BitSet(size)
BitSet(size) == [size |-> size, words |-> Array([w \in 1..wordCount(size) |-> {}])]

OutOfBounds == [kind |-> "OutOfBounds", label |-> ""]

\* this.words[wordIndex] where a word is an operand of | or &: a read
\* outside the typed array is undefined, which these operators take as 0
WordAt(b, wordIndex) ==
    IF wordIndex + 1 \in 1..Len(b.words) THEN b.words[wordIndex + 1] ELSE {}

\* this.words[wordIndex] = w: a write outside the typed array is ignored
WordPut(b, wordIndex, w) ==
    IF wordIndex + 1 \in 1..Len(b.words)
    THEN [b EXCEPT !.words[wordIndex + 1] = w]
    ELSE b

\* set(index): the bitset afterwards and the error thrown
set(b, index) ==
    IF index < 0 \/ index >= b.size
    THEN [b |-> b, err |-> OutOfBounds]
    ELSE LET wordIndex == index \div WordBits
             bitIndex == index % WordBits
         IN  [b |-> WordPut(b, wordIndex, WordAt(b, wordIndex) \cup {bitIndex}),
              err |-> NoError]

\* clear(index)
clear(b, index) ==
    IF index < 0 \/ index >= b.size
    THEN [b |-> b, err |-> OutOfBounds]
    ELSE LET wordIndex == index \div WordBits
             bitIndex == index % WordBits
         IN  [b |-> WordPut(b, wordIndex, WordAt(b, wordIndex) \ {bitIndex}),
              err |-> NoError]

\* get(index) for an index within the size
get(b, index) == (WordAt(b, index \div WordBits) \cap {index % WordBits}) # {}

\* One halving step of countTrailingZeros: st is <<count, word>>
ctzStep(st, k) ==
    IF LowBits(st[2], k) = {} THEN <<st[1] + k, ShiftRight(st[2], k)>> ELSE st

countTrailingZeros(word) ==
    IF word = {} THEN WordBits
    ELSE LET s16 == ctzStep(<<0, word>>, 16)
             s8 == ctzStep(s16, 8)
             s4 == ctzStep(s8, 4)
             s2 == ctzStep(s4, 2)
         IN  IF LowBits(s2[2], 1) = {} THEN s2[1] + 1 ELSE s2[1]

\* The while loop of nextSetBit: skip the words that are 0
RECURSIVE skipZeroWords(_, _, _)
skipZeroWords(b, wordIndex, word) ==
    IF word = {}
    THEN IF wordIndex + 1 >= Len(b.words) THEN -1
         ELSE skipZeroWords(b, wordIndex + 1, WordAt(b, wordIndex + 1))
    ELSE LET result == wordIndex * WordBits + countTrailingZeros(word)
         IN  IF result < b.size THEN result ELSE -1

\* nextSetBit(fromIndex) for fromIndex >= 0
nextSetBit(b, fromIndex) ==
    IF fromIndex >= b.size THEN -1
    ELSE LET wordIndex == fromIndex \div WordBits
             bitIndex == fromIndex % WordBits
         IN  skipZeroWords(b, wordIndex,
                           WordAt(b, wordIndex) \cap (bitIndex..(WordBits - 1)))

\* equals(other)
equals(b, other) ==
    /\ b.size = other.size
    /\ \A i \in 1..Len(b.words) : WordAt(b, i - 1) = WordAt(other, i - 1)

Digits == <<"0", "1", "2", "3", "4", "5", "6", "7", "8", "9">>

\* String(n) for an integer n >= 0
RECURSIVE NumberToString(_)
NumberToString(n) ==
    IF n < 10 THEN <<Digits[n + 1]>>
    ELSE NumberToString(n \div 10) \o <<Digits[(n % 10) + 1]>>

\* Array.prototype.join(',') of an array of numbers
RECURSIVE join(_)
join(numbers) ==
    IF numbers = <<>> THEN <<>>
    ELSE IF Len(numbers) = 1 THEN NumberToString(numbers[1])
    ELSE NumberToString(numbers[1]) \o <<",">> \o join(Tail(numbers))

\* The loop of toString: the set bits from i on, appended to setBits
RECURSIVE collectSetBits(_, _, _)
collectSetBits(b, i, setBits) ==
    IF i = -1 THEN setBits
    ELSE collectSetBits(b, nextSetBit(b, i + 1), Append(setBits, i))

toString(b) == join(collectSetBits(b, nextSetBit(b, 0), <<>>))

\* String.prototype.split(','): field is the piece being read
RECURSIVE split(_, _)
split(str, field) ==
    IF str = <<>> THEN <<field>>
    ELSE IF Head(str) = "," THEN <<field>> \o split(Tail(str), <<>>)
    ELSE split(Tail(str), Append(field, Head(str)))

NaN == -1

DigitValue(ch) == CHOOSE d \in 0..9 : Digits[d + 1] = ch

IsDigit(ch) == \E d \in 0..9 : Digits[d + 1] = ch

\* parseInt(s, 10) of a string without sign or blanks: the leading digits
RECURSIVE parseDigits(_, _)
parseDigits(s, value) ==
    IF s = <<>> \/ ~IsDigit(Head(s)) THEN value
    ELSE parseDigits(Tail(s), value * 10 + DigitValue(Head(s)))

parseInt(s) ==
    IF s = <<>> \/ ~IsDigit(Head(s)) THEN NaN ELSE parseDigits(s, 0)

\* The loop of fromString: st is the bitset so far and the error thrown
RECURSIVE setEach(_, _)
setEach(st, indices) ==
    IF indices = <<>> \/ st.err # NoError THEN st
    ELSE setEach(IF indices[1] = NaN THEN st ELSE set(st.b, indices[1]),
                 Tail(indices))

\* BitSet.fromString(str, size)
fromString(str, size) ==
    IF str = <<>> THEN [b |-> BitSet(size), err |-> NoError]
    ELSE LET fields == split(str, <<>>)
             indices == Array([k \in 1..Len(fields) |-> parseInt(fields[k])])
         IN  setEach([b |-> BitSet(size), err |-> NoError], indices)

----------------------------------------------------------------------------
(* MDS driver: calculateMDS reads the two number fields, removes the       *)
(* burn-in, thins the trees by randomSample and labels them.  A tree is    *)
(* its 1-based position in the file; the outcome of Math.random() is a     *)
(* multiple of 1 / RandomGrid in [0, 1).                                   *)

RandomGrid == MaxFile

\* The value of a number field after parseInt: an integer or NaN
Field(n) == [isNaN |-> FALSE, value |-> n]
Blank == [isNaN |-> TRUE, value |-> 0]

\* parseInt(field.value) || fallback
numberOr(field, fallback) ==
    IF field.isNaN \/ field.value = 0 THEN fallback ELSE field.value

DefaultMaxTrees == 500

TooFewForMDS == [kind |-> "TooFewForMDS", label |-> ""]
TooFewAfterBurnin == [kind |-> "TooFewAfterBurnin", label |-> ""]
EmptyReduce == [kind |-> "TypeError", label |-> ""]

\* [indices[i], indices[j]] = [indices[j], indices[i]]
swap(indices, i, j) == [indices EXCEPT ![i] = indices[j], ![j] = indices[i]]

\* Array.prototype.sort((a, b) => a - b): ascending, by insertion
RECURSIVE insertAscending(_, _)
insertAscending(sorted, x) ==
    IF sorted = <<>> THEN <<x>>
    ELSE IF x < Head(sorted) THEN <<x>> \o sorted
    ELSE <<Head(sorted)>> \o insertAscending(Tail(sorted), x)

RECURSIVE sortAscending(_)
sortAscending(a) ==
    IF a = <<>> THEN <<>>
    ELSE insertAscending(sortAscending(SubSeq(a, 1, Len(a) - 1)), a[Len(a)])

\* Math.floor(Math.random() * m) for Math.random() = draw / RandomGrid
randomBelow(draw, m) == (draw * m) \div RandomGrid

\* The loop of randomSample from iteration i on (0-based): indices and
\* sampled are 1-based sequences of 0-based tree indices
RECURSIVE sampleLoop(_, _, _, _, _, _)
sampleLoop(n, k, i, draws, indices, sampled) ==
    IF i >= k THEN sampled
    ELSE LET j == randomBelow(draws[i + 1], n - i) + i
             swapped == swap(indices, i + 1, j + 1)
         IN  sampleLoop(n, k, i + 1, draws, swapped, Append(sampled, swapped[i + 1]))

\* randomSample(n, k) under the outcomes draws of Math.random()
randomSample(n, k, draws) ==
    sortAscending(sampleLoop(n, k, 0, draws, Array([i \in 1..n |-> i - 1]), <<>>))

\* The number of Math.random() calls of randomSample(n, k)
drawsOf(k) == IF k > 0 THEN k ELSE 0

\* `Tree ${n}`
TreeLabel(n) == <<"T", "r", "e", "e", " ">> \o NumberToString(n)

\* The first statements of classicalMDS: reduce without an initial value
\* throws on the row means of an empty matrix
centeringError(n) == IF n = 0 THEN EmptyReduce ELSE NoError

MDSError(err, total) ==
    [err |-> err, total |-> total, burninCount |-> 0, treesAfterBurnin |-> <<>>,
     maxTrees |-> 0, sampled |-> FALSE, indices |-> <<>>, selectedTrees |-> <<>>,
     treeLabels |-> <<>>]

\* The body of calculateMDS for a file of total trees, up to the call of
\* classicalMDS
calculateMDS(total, maxTreesField, burninField, draws) ==
    LET maxTrees == numberOr(maxTreesField, DefaultMaxTrees)
        burninPercent == numberOr(burninField, 0)
        trees == Array([p \in 1..total |-> p])
        burninTrees == IF burninPercent > 0 THEN (total * burninPercent) \div 100 ELSE 0
        treesAfterBurnin == IF burninPercent > 0 THEN slice(trees, burninTrees, total)
                            ELSE trees
        remaining == Len(treesAfterBurnin)
        sampled == remaining > maxTrees
        indices == IF sampled THEN randomSample(remaining, maxTrees, draws) ELSE <<>>
        selectedTrees ==
            IF sampled
            THEN Array([x \in 1..Len(indices) |-> treesAfterBurnin[indices[x] + 1]])
            ELSE treesAfterBurnin
        treeLabels ==
            IF sampled
            THEN Array([x \in 1..Len(indices) |-> TreeLabel(indices[x] + burninTrees + 1)])
            ELSE Array([x \in 1..remaining |-> TreeLabel((x - 1) + burninTrees + 1)])
    IN  IF total < 2 THEN MDSError(TooFewForMDS, total)
        ELSE IF remaining < 2
        THEN [MDSError(TooFewAfterBurnin, total) EXCEPT !.burninCount = burninTrees]
        ELSE [err |-> centeringError(Len(selectedTrees)), total |-> total,
              burninCount |-> burninTrees, treesAfterBurnin |-> treesAfterBurnin,
              maxTrees |-> maxTrees, sampled |-> sampled, indices |-> indices,
              selectedTrees |-> selectedTrees, treeLabels |-> treeLabels]

\* The number of Math.random() calls calculateMDS makes for these inputs
drawsNeeded(total, maxTreesField, burninField) ==
    LET maxTrees == numberOr(maxTreesField, DefaultMaxTrees)
        burninPercent == numberOr(burninField, 0)
        burninTrees == IF burninPercent > 0 THEN (total * burninPercent) \div 100 ELSE 0
        remaining == IF burninTrees > total THEN 0 ELSE total - burninTrees
    IN  IF total < 2 \/ remaining < 2 \/ remaining <= maxTrees THEN 0
        ELSE drawsOf(maxTrees)

----------------------------------------------------------------------------
(* classicalMDS.  numeric.eig is a library call: its result is an input,   *)
(* lambda.x a sequence of n eigenvalues and E.x an n x n matrix whose      *)
(* column idx is the eigenvector of lambda.x[idx].  Eigenvalues are        *)
(* integers, the positive ones squares, so that Math.sqrt is exact.        *)

\* Math.sqrt(x) for a square x >= 0
sqrt(x) == CHOOSE s \in 0..x : s * s = x

\* eig.lambda.x.map((val, idx) => ({value, vector: eig.E.x.map(row => row[idx])}))
eigenPairsOf(eig) ==
    Array([idx \in 1..Len(eig.lambda) |->
        [value |-> eig.lambda[idx],
         vector |-> Array([row \in 1..Len(eig.E) |-> eig.E[row][idx]])]])

\* eigenPairs.sort((a, b) => b.value - a.value): descending and stable, by
\* insertion of pair into the sorted pairs before it
RECURSIVE insertDescending(_, _)
insertDescending(sorted, pair) ==
    IF sorted = <<>> THEN <<pair>>
    ELSE IF sorted[Len(sorted)].value >= pair.value THEN Append(sorted, pair)
    ELSE Append(insertDescending(SubSeq(sorted, 1, Len(sorted) - 1), pair),
                sorted[Len(sorted)])

RECURSIVE sortDescending(_)
sortDescending(pairs) ==
    IF pairs = <<>> THEN <<>>
    ELSE insertDescending(sortDescending(SubSeq(pairs, 1, Len(pairs) - 1)),
                          pairs[Len(pairs)])

\* The coordinates of classicalMDS from the sorted eigenpairs (lines 32-46)
coordsOf(n, eigenPairs) ==
    LET first == eigenPairs[1].value > 0
        second == Len(eigenPairs) > 1 /\ eigenPairs[2].value > 0
    IN  Array([i \in 1..n |->
            << IF first THEN eigenPairs[1].vector[i] * sqrt(eigenPairs[1].value) ELSE 0,
               IF second THEN eigenPairs[2].vector[i] * sqrt(eigenPairs[2].value) ELSE 0 >>])

\* classicalMDS(distances) for an n x n matrix and the result eig of
\* numeric.eig(B)
classicalMDS(n, eig) ==
    IF centeringError(n) # NoError
    THEN [err |-> centeringError(n), n |-> n, eig |-> eig, coords |-> <<>>]
    ELSE [err |-> NoError, n |-> n, eig |-> eig,
          coords |-> coordsOf(n, sortDescending(eigenPairsOf(eig)))]

----------------------------------------------------------------------------
(* Inputs *)

Letters == <<"A", "B", "C", "D", "E", "F">>

A == Leaf("A")
B == Leaf("B")
C == Leaf("C")
D == Leaf("D")

\* Trees handed to addTree, fromTrees and getTreeLogProbability
InputTrees ==
    << Node(Node(Node(A, B), C), D),       \* 1  (((A,B),C),D)
       Node(Node(Node(A, C), B), D),       \* 2  (((A,C),B),D)
       Node(Node(A, B), Node(C, D)),       \* 3  ((A,B),(C,D))
       Node(Node(A, B), C),                \* 4  ((A,B),C)
       Node(Node(A, C), B),                \* 5  ((A,C),B)
       Node(Node(B, C), A),                \* 6  ((B,C),A)
       Node(C, Node(B, A)),                \* 7  (C,(B,A)): tree 4, children swapped
       Node(A, B),                         \* 8  (A,B)
       Node3(A, B, C),                     \* 9  (A,B,C): three children
       Node(Node1(A), B),                  \* 10 ((A),B): one child
       Node(A, UnlabelledLeaf(7)),         \* 11 (A,<id 7>): leaf without label
       Node(Node(A, C), Node(B, D)) >>     \* 12 ((A,C),(B,D))

NumTrees == Len(InputTrees)

\* The three topologies on {A, B, C}
ThreeTaxonTrees == {4, 5, 6}

\* burnin fractions, <<numerator, denominator>>
Burnins == {<<0, 1>>, <<1, 2>>}

\* Trees of the lists handed to fromTrees
BuildTrees == {1, 4, 5, 6, 8, 9, 10, 11}

TreeLists == UNION {[1..n -> BuildTrees] : n \in 0..MaxList}

treesOf(list) == Array([i \in 1..Len(list) |-> InputTrees[list[i]]])

EmptyBag == Array([i \in 1..NumTrees |-> 0])

RECURSIVE bagOf(_)
bagOf(list) ==
    IF Len(list) = 0 THEN EmptyBag
    ELSE [bagOf(Tail(list)) EXCEPT ![Head(list)] = @ + 1]

----------------------------------------------------------------------------
(* Actions *)

Exists == ccd.leafArraySize # -1

Ret(op, arg, value, err) == [op |-> op, arg |-> arg, value |-> value, err |-> err]

Init ==
    /\ ccd = NoCCD
    /\ ret = Ret("none", 0, 0, NoError)
    /\ ghost = [built |-> "none", bag |-> EmptyBag, initialized |-> FALSE,
                rejected |-> FALSE, list |-> <<>>, burnin |-> <<0, 1>>]

\* new CCD1(numLeaves) with taxonNames / taxonMapping assigned by the caller
NewCCD(n) ==
    /\ ~Exists
    /\ ccd' = CCD1(n, SubSeq(Letters, 1, n))
    /\ ret' = Ret("new", n, 0, NoError)
    /\ ghost' = [ghost EXCEPT !.built = "new"]

\* currentCCD = CCD1.fromTrees(trees, burnin)
FromTrees(list, burnin) ==
    /\ ~Exists
    /\ ghost.built = "none"
    /\ LET r == fromTrees(treesOf(list), burnin)
       IN  /\ ccd' = r.ccd
           /\ ret' = Ret("fromTrees", 0, 0, r.err)
           /\ ghost' = [built |-> "fromTrees",
                        bag |-> bagOf(treesToUse(list, burnin)),
                        initialized |-> r.err = NoError,
                        rejected |-> r.err # NoError,
                        list |-> list, burnin |-> burnin]

AddTree(i) ==
    /\ Exists
    /\ LET r == addTree(ccd, InputTrees[i])
       IN  /\ ccd' = r.ccd
           /\ ret' = Ret("addTree", i, 0, r.err)
           /\ ghost' = [ghost EXCEPT !.bag[i] = @ + 1,
                                     !.initialized = FALSE,
                                     !.rejected = @ \/ r.err # NoError]

Initialize ==
    /\ Exists
    /\ ccd' = initialize(ccd)
    /\ ret' = Ret("initialize", 0, 0, NoError)
    /\ ghost' = [ghost EXCEPT !.initialized = TRUE]

ComputeCladeProbabilities ==
    /\ Exists
    /\ ccd' = computeCladeProbabilities(ccd)
    /\ ret' = Ret("computeCladeProbabilities", 0, 0, NoError)
    /\ UNCHANGED ghost

ComputeCladeProbabilitiesIfDirty ==
    /\ Exists
    /\ ccd' = computeCladeProbabilitiesIfDirty(ccd)
    /\ ret' = Ret("computeCladeProbabilitiesIfDirty", 0, 0, NoError)
    /\ UNCHANGED ghost

GetEntropy ==
    /\ Exists
    /\ ccd' = computeCladeProbabilitiesIfDirty(ccd)
    /\ ret' = Ret("getEntropy", 0, entropyOf(ccd'.cladeMapping), NoError)
    /\ UNCHANGED ghost

GetMaxLogTreeProbability ==
    /\ Exists
    /\ LET r == getMaxLogTreeProbability(ccd)
       IN  /\ ccd' = r.ccd
           /\ ret' = Ret("getMaxLogTreeProbability", r.iterations, r.value, NoError)
    /\ UNCHANGED ghost

GetTreeLogProbability(i) ==
    /\ Exists
    /\ LET r == getTreeLogProbability(ccd, InputTrees[i])
       IN  /\ ccd' = r.ccd
           /\ ret' = Ret("getTreeLogProbability", i, r.value, r.err)
    /\ UNCHANGED ghost

GetMaxTreeProbability ==
    /\ Exists
    /\ LET r == getMaxTreeProbability(ccd)
       IN  /\ ccd' = r.ccd
           /\ ret' = Ret("getMaxTreeProbability", 0, r.value, NoError)
    /\ UNCHANGED ghost

\* checkMixing (index.js, lines 472-494): at least four trees before and
\* after burn-in, then two halves
TooFewTrees == [kind |-> "TooFewTrees", label |-> ""]

checkMixing(trees, burnin) ==
    IF Len(trees) < 4 THEN DissonanceError(TooFewTrees)
    ELSE IF Len(treesToUse(trees, burnin)) < 4 THEN DissonanceError(TooFewTrees)
    ELSE calculateWithinChainDissonance(treesToUse(trees, burnin), 2)

\* results = await calculateWithinChainDissonance(trees, numSplits)
CalculateWithinChainDissonance(list, numSplits) ==
    /\ ~Exists
    /\ ghost.built = "none"
    /\ LET r == calculateWithinChainDissonance(treesOf(list), numSplits)
       IN  ret' = Ret("calculateWithinChainDissonance", numSplits, r, r.err)
    /\ ghost' = [ghost EXCEPT !.built = "dissonance", !.list = list]
    /\ UNCHANGED ccd

\* The mixing analysis of the page
CheckMixing(list, burnin) ==
    /\ ~Exists
    /\ ghost.built = "none"
    /\ LET r == checkMixing(treesOf(list), burnin)
       IN  ret' = Ret("checkMixing", 2, r, r.err)
    /\ ghost' = [ghost EXCEPT !.built = "mixing", !.list = list, !.burnin = burnin]
    /\ UNCHANGED ccd

\* The frame of the call of fromTreesAsync in flight or finished
Frame == ret.value

InFlight == ghost.built = "async" /\ Frame.pc = "loop"

\* What the caller has once the frame st is left: currentCCD = await ...
Settle(st) ==
    /\ ret' = Ret("fromTreesAsync", st.i, st, st.err)
    /\ ccd' = IF st.pc = "returned" THEN st.ccd ELSE ccd

\* CCD1.fromTreesAsync(trees, burnin, progressCallback) is called
StartAsync(list, burnin) ==
    /\ ~Exists
    /\ ghost.built = "none"
    /\ Settle(asyncStart(treesOf(list), burnin))
    /\ ghost' = [ghost EXCEPT !.built = "async", !.list = list, !.burnin = burnin]

\* CCD1.fromTreesAsync(trees, burnin) is called and runs to its end
RunAsync(list, burnin) ==
    /\ ~Exists
    /\ ghost.built = "none"
    /\ Settle(asyncRun(asyncStart(treesOf(list), burnin)))
    /\ ghost' = [ghost EXCEPT !.built = "async", !.list = list, !.burnin = burnin]

\* The callback of one tree settles and the call goes on to the next await
Progress(outcome) ==
    /\ InFlight
    /\ Frame.i < Len(Frame.trees)
    /\ Settle(asyncLoop(Frame, outcome))
    /\ UNCHANGED ghost

\* The last callback settles
Finish(outcome) ==
    /\ InFlight
    /\ Frame.i = Len(Frame.trees)
    /\ Settle(asyncFinish(Frame, outcome))
    /\ UNCHANGED ghost

\* calculateDissonance(treeSets) or calculateDissonance(treeSets, callback)
\* is called
StartDissonance(sets, callback) ==
    /\ ~Exists
    /\ ghost.built = "none"
    /\ LET fr == dissonanceBegin(Array([j \in 1..Len(sets) |-> treesOf(sets[j])]),
                                 callback)
       IN  ret' = Ret("calculateDissonance", fr.i, fr, fr.err)
    /\ ghost' = [ghost EXCEPT !.built = "steps", !.list = sets]
    /\ UNCHANGED ccd

Suspended == ghost.built = "steps" /\ Frame.pc \in {"callback", "timeout"}

\* The promise calculateDissonance awaits settles: the callback's as the
\* callback decides, the timer's always resolved
ResumeDissonance(outcome) ==
    /\ Suspended
    /\ Frame.pc = "timeout" => outcome = "resolve"
    /\ LET fr == dissonanceResume(Frame, outcome)
       IN  ret' = Ret("calculateDissonance", fr.i, fr, fr.err)
    /\ UNCHANGED <<ccd, ghost>>

\* Rooted binary trees over {A,B,C,D}, {A,B,C} and {A,B}
CoreTrees == {1, 3, 4, 5, 8}

Construct == \E n \in 2..MaxTaxa : NewCCD(n)

\* A CCD and the getters that propagate clade probabilities on demand
Next ==
    \/ Construct
    \/ \E i \in CoreTrees : ccd.numBaseTrees < MaxTrees /\ AddTree(i)
    \/ Initialize
    \/ ComputeCladeProbabilitiesIfDirty
    \/ GetEntropy

Spec == Init /\ [][Next]_vars

\* A CCD and the clade probability propagation
NextProb ==
    \/ Construct
    \/ \E i \in CoreTrees : ccd.numBaseTrees < MaxTrees /\ AddTree(i)
    \/ Initialize
    \/ ComputeCladeProbabilities

SpecProb == Init /\ [][NextProb]_vars

\* A CCD and the maximum log tree probability
NextMax ==
    \/ Construct
    \/ \E i \in CoreTrees : ccd.numBaseTrees < MaxTrees /\ AddTree(i)
    \/ Initialize
    \/ GetMaxLogTreeProbability

SpecMax == Init /\ [][NextMax]_vars

\* Trees handed to addTree in SpecIngest: binary ones over two to four taxa,
\* a swapped one, and the malformed ones
IngestTrees == {2, 4, 5, 7, 8, 9, 10, 11, 12}

\* Ingestion of arbitrary trees, malformed ones included
NextIngest ==
    \/ Construct
    \/ \E i \in IngestTrees : ccd.numBaseTrees < MaxTrees /\ AddTree(i)
    \/ Initialize

SpecIngest == Init /\ [][NextIngest]_vars

\* A CCD built by fromTrees and queried
NextBuild ==
    \/ \E list \in TreeLists, burnin \in Burnins : FromTrees(list, burnin)
    \/ \E i \in BuildTrees : GetTreeLogProbability(i)

SpecBuild == Init /\ [][NextBuild]_vars

\* Long runs of three-taxon trees, and normalisation
NextSum ==
    \/ Construct
    \/ \E i \in ThreeTaxonTrees : ccd.numBaseTrees < MaxSumTrees /\ AddTree(i)
    \/ Initialize

SpecSum == Init /\ [][NextSum]_vars

\* Rooted binary trees handed to fromTrees in SpecOne
BinaryTrees == {1, 3, 4, 5, 7, 8, 12}

BinaryLists == UNION {[1..n -> BinaryTrees] : n \in 1..MaxList}

\* A CCD built by fromTrees from binary trees, and the three probability getters
NextOne ==
    \/ \E list \in BinaryLists, burnin \in Burnins : FromTrees(list, burnin)
    \/ \E i \in BinaryTrees : GetTreeLogProbability(i)
    \/ GetMaxLogTreeProbability
    \/ GetMaxTreeProbability

SpecOne == Init /\ [][NextOne]_vars

\* Trees of the lists analysed for mixing: two topologies on {A,B,C} and one
\* tree on {A,B,C,D}
MixTrees == {3, 4, 5}

\* Lists of one topology on {A,B,C}: m copies of ((A,B),C), then the same
\* tree with its children swapped
SameLists ==
    UNION {{Array([i \in 1..n |-> IF i <= m THEN 4 ELSE 7]) : m \in 0..n}
           : n \in 4..MaxSameTrees}

MixLists == UNION {[1..n -> MixTrees] : n \in 0..MaxMixTrees} \cup SameLists

Splits == {2, 3}

\* The dissonance of the blocks of one list of trees
NextMix ==
    \/ \E list \in MixLists, numSplits \in Splits :
           CalculateWithinChainDissonance(list, numSplits)
    \/ \E list \in MixLists, burnin \in Burnins : CheckMixing(list, burnin)

SpecMix == Init /\ [][NextMix]_vars

\* The BitSet b as the last call left it, with the indices set and not
\* cleared since (members) and the outcome of the last conversion
BitSetValue(b, members, str, back, same) ==
    [b |-> b, members |-> members, str |-> str, back |-> back, same |-> same]

HasBitSet == ghost.built = "bitset"

\* new BitSet(size)
NewBitSet(size) ==
    /\ ~Exists
    /\ ghost.built = "none"
    /\ ret' = Ret("newBitSet", size,
                  BitSetValue(BitSet(size), {}, <<>>, BitSet(0), FALSE), NoError)
    /\ ghost' = [ghost EXCEPT !.built = "bitset"]
    /\ UNCHANGED ccd

\* b.set(index)
SetBit(index) ==
    /\ HasBitSet
    /\ LET r == set(ret.value.b, index)
           members == IF r.err = NoError THEN ret.value.members \cup {index}
                      ELSE ret.value.members
       IN  ret' = Ret("set", index,
                      BitSetValue(r.b, members, <<>>, BitSet(0), FALSE), r.err)
    /\ UNCHANGED <<ccd, ghost>>

\* b.clear(index)
ClearBit(index) ==
    /\ HasBitSet
    /\ LET r == clear(ret.value.b, index)
           members == IF r.err = NoError THEN ret.value.members \ {index}
                      ELSE ret.value.members
       IN  ret' = Ret("clear", index,
                      BitSetValue(r.b, members, <<>>, BitSet(0), FALSE), r.err)
    /\ UNCHANGED <<ccd, ghost>>

\* BitSet.fromString(b.toString(), b.size).equals(b)
RoundTrip ==
    /\ HasBitSet
    /\ LET b == ret.value.b
           str == toString(b)
           r == fromString(str, b.size)
       IN  ret' = Ret("roundTrip", b.size,
                      BitSetValue(b, ret.value.members, str, r.b, equals(r.b, b)),
                      r.err)
    /\ UNCHANGED <<ccd, ghost>>

\* The click handler calculateMDS on a file of total trees
CalculateMDS(total, maxTreesField, burninField, draws) ==
    /\ ~Exists
    /\ ghost.built = "none"
    /\ LET r == calculateMDS(total, maxTreesField, burninField, draws)
       IN  ret' = Ret("calculateMDS", total, r, r.err)
    /\ ghost' = [ghost EXCEPT !.built = "mds"]
    /\ UNCHANGED ccd

\* classicalMDS(distances) is called on an n x n distance matrix
ClassicalMDS(n, eig) ==
    /\ ~Exists
    /\ ghost.built = "none"
    /\ LET r == classicalMDS(n, eig)
       IN  ret' = Ret("classicalMDS", n, r, r.err)
    /\ ghost' = [ghost EXCEPT !.built = "coords"]
    /\ UNCHANGED ccd

\* Trees handed to fromTreesAsync: binary ones and one with three children
AsyncTrees == {1, 4, 5, 8, 9}

AsyncLists == UNION {[1..n -> AsyncTrees] : n \in 0..MaxList}

\* A CCD built by fromTreesAsync under a progress callback that may throw
NextAsync ==
    \/ \E list \in AsyncLists, burnin \in Burnins : StartAsync(list, burnin)
    \/ \E list \in AsyncLists, burnin \in Burnins : RunAsync(list, burnin)
    \/ \E outcome \in Outcomes : Progress(outcome)
    \/ \E outcome \in Outcomes : Finish(outcome)

SpecAsync == Init /\ [][NextAsync]_vars

\* Logical sizes: none, within one word, up to and across each word boundary
BitSetSizes ==
    {0, 5} \cup {size \in 1..(WordBits * MaxWords) :
                    size % WordBits \in {0, 1, WordBits - 1}}

\* Indices at both ends of each word, and the index one past the last word
BitIndices ==
    {index \in 0..(WordBits * MaxWords) : index % WordBits \in {0, WordBits - 1}}

\* A BitSet filled bit by bit and converted to a string and back
NextBits ==
    \/ \E size \in BitSetSizes : NewBitSet(size)
    \/ \E index \in BitIndices : SetBit(index)
    \/ \E index \in BitIndices : ClearBit(index)
    \/ RoundTrip

SpecBits == Init /\ [][NextBits]_vars

\* What the user types into the fields Max trees and Burnin %
MaxTreesFields == {Blank} \cup {Field(n) : n \in -1..(MaxFile - 1)}

BurninFields == {Blank, Field(-5), Field(20), Field(50), Field(150)}

\* One run of the MDS driver under every outcome of the random draws
NextDriver ==
    \E total \in 0..MaxFile, maxTreesField \in MaxTreesFields, burninField \in BurninFields :
        \E draws \in [1..drawsNeeded(total, maxTreesField, burninField) -> 0..(RandomGrid - 1)] :
            CalculateMDS(total, maxTreesField, burninField, draws)

SpecDriver == Init /\ [][NextDriver]_vars

\* Eigenvalues numeric.eig may return: negative, zero, positive, repeated
Lambdas == {-1, 0, 1, 4}

\* Eigenvector matrices with pairwise different columns
EigenMatrices(n) ==
    {Array([row \in 1..n |-> Array([idx \in 1..n |-> ((row * s + idx * idx) % 5) - 2])]) :
        s \in 1..3}

Eigs(n) == {[lambda |-> l, E |-> m] : l \in [1..n -> Lambdas], m \in EigenMatrices(n)}

\* classicalMDS on the matrices of 0 to MaxPoints trees
NextMDS ==
    \E n \in 0..MaxPoints : \E eig \in Eigs(n) : ClassicalMDS(n, eig)

SpecMDS == Init /\ [][NextMDS]_vars

----------------------------------------------------------------------------
(* Properties *)

Clades == 1..Len(ccd.cladeMapping)

\* Sum of the occurrence counts of a clade's partitions
OccSum(clade) ==
    LET f[n \in 0..Len(clade.partitions)] ==
            IF n = 0 THEN 0 ELSE f[n - 1] + clade.partitions[n].occurrenceCount
    IN  f[Len(clade.partitions)]

CcpIsQuotient(clade) ==
    \A i \in 1..Len(clade.partitions) :
        /\ clade.partitions[i].ccp[1] * OccSum(clade)
               = clade.partitions[i].occurrenceCount * clade.partitions[i].ccp[2]
        /\ clade.partitions[i].ccp[1] > 0

\* C1 as stated: after initialize on a CCD whose addTree calls all succeeded,
\* every clade with a partition has each
\* ccp equal to occurrenceCount / (sum of its partitions' occurrenceCounts),
\* every ccp > 0, and the ccps, added up as doubles in partition order, give
\* exactly 1.
C1_SumExactlyOne ==
    ret.op = "initialize" /\ ~ghost.rejected =>
        \A k \in Clades :
            Len(ccd.cladeMapping[k].partitions) > 0 =>
                /\ CcpIsQuotient(ccd.cladeMapping[k])
                /\ sumOfCCPs(ccd.cladeMapping[k].partitions, DblZero) = DblOne

\* C1 amended: after initialize on a CCD whose addTree calls all succeeded,
\* every clade with a partition has each ccp equal to
\* occurrenceCount / (sum of its partitions' occurrenceCounts), every ccp > 0,
\* and the ccps add up, as doubles, to 1 within 1e-12.
C1_SumWithinTolerance ==
    ret.op = "initialize" /\ ~ghost.rejected =>
        \A k \in Clades :
            Len(ccd.cladeMapping[k].partitions) > 0 =>
                /\ CcpIsQuotient(ccd.cladeMapping[k])
                /\ WithinTolerance(sumOfCCPs(ccd.cladeMapping[k].partitions, DblZero))

\* initialize has normalised a clade whose ccps do not add up to exactly 1
C1_Witness ==
    /\ ret.op = "initialize"
    /\ ~ghost.rejected
    /\ \E k \in Clades :
           /\ Len(ccd.cladeMapping[k].partitions) >= 3
           /\ sumOfCCPs(ccd.cladeMapping[k].partitions, DblZero) # DblOne

----------------------------------------------------------------------------

\* The clade probabilities obtained by propagating the current CCPs from the
\* root from scratch
Propagated == computeCladeProbabilities(ccd).cladeMapping

\* C2: whenever initialize has run and no addTree has run since, the clade
\* probabilities a getter leaves behind (and the entropy getEntropy returns)
\* equal those of a propagation of the current CCPs from scratch, whatever
\* calls came before.
C2_GettersConsistent ==
    ghost.initialized /\ ~ghost.rejected /\ ret.op \in {"getEntropy", "computeCladeProbabilitiesIfDirty"} =>
        /\ \A k \in Clades :
               ccd.cladeMapping[k].probability = Propagated[k].probability
        /\ ret.op = "getEntropy" => ret.value = entropyOf(Propagated)

\* Leaf labels of a tree that are no key of the taxon index
UnknownLabels(tree) == {l \in TipLabels(tree) : l \notin DOMAIN ccd.taxonMapping}

\* C3: addTree on a tree with a leaf whose label is not in the taxon index
\* fails with an error naming such a label, wherever the leaf sits.
C3_UnknownTaxonFails ==
    ret.op = "addTree" /\ UnknownLabels(InputTrees[ret.arg]) # {} =>
        /\ ret.err.kind = "TaxonUnknown"
        /\ ret.err.label \in UnknownLabels(InputTrees[ret.arg])

\* C4: addTree on a tree with an internal vertex that has one child, or three
\* or more, fails with a MalformedTree error.
C4_NonBinaryFails ==
    ret.op = "addTree" /\ ~IsBinary(InputTrees[ret.arg]) =>
        ret.err.kind = "MalformedTree"

\* Leaf labels of the trees fromTrees retains after the burn-in
RetainedLabels == allTaxa(treesToUse(treesOf(ghost.list), ghost.burnin))

\* C5: the CCD fromTrees returns has its taxon index built from the retained
\* trees only, sorted ascending: L and the root bitset's width are the number
\* of distinct leaf labels of the retained trees, and numBaseTrees is
\* |trees| - floor(|trees| * burnin).
C5_TaxaOfRetainedTrees ==
    ghost.built = "fromTrees" /\ Exists =>
        /\ ccd.taxonNames = sortedTaxa(RetainedLabels)
        /\ ccd.leafArraySize = Cardinality(RetainedLabels)
        /\ ccd.cladeMapping[ccd.rootClade].cladeInBits
               = setRange(0, Cardinality(RetainedLabels))
        /\ ccd.numBaseTrees
               = Len(ghost.list) - burninCount(ghost.list, ghost.burnin)

\* The trees of a bag as a list, in the order of InputTrees
RECURSIVE listOfBag(_, _)
listOfBag(bag, i) ==
    IF i > NumTrees THEN <<>>
    ELSE IF bag[i] = 0 THEN listOfBag(bag, i + 1)
    ELSE <<i>> \o listOfBag([bag EXCEPT ![i] = @ - 1], i)

\* addTree for each tree of a list, a failed call not stopping the next
RECURSIVE addEach(_, _)
addEach(c, list) ==
    IF Len(list) = 0 THEN c
    ELSE addEach(addTree(c, InputTrees[Head(list)]).ccd, Tail(list))

\* The CCD built from the trees handed to addTree so far, in the order of
\* InputTrees, then initialised
Rebuilt ==
    initialize(addEach(CCD1(ccd.leafArraySize, ccd.taxonNames),
                       listOfBag(ghost.bag, 1)))

\* What C6 compares: clade bitsets with their occurrenceCount and their
\* partitions as (unordered child pair, occurrenceCount, ccp)
Canon(c) ==
    {[cladeInBits |-> c.cladeMapping[k].cladeInBits,
      occurrenceCount |-> c.cladeMapping[k].occurrenceCount,
      partitions |->
          {[childClades |->
                {c.cladeMapping[c.cladeMapping[k].partitions[i].childClades[s]].cladeInBits
                    : s \in 1..2},
            occurrenceCount |-> c.cladeMapping[k].partitions[i].occurrenceCount,
            ccp |-> c.cladeMapping[k].partitions[i].ccp]
           : i \in 1..Len(c.cladeMapping[k].partitions)},
      size |-> Len(c.cladeMapping[k].partitions)]
     : k \in 1..Len(c.cladeMapping)}

\* C6: the trees handed to addTree, in whatever order, followed by initialize
\* give the same clade bitsets, the same occurrenceCount per clade, and the
\* same partitions (parent, unordered child pair) with the same
\* occurrenceCount and ccp as the same trees added in the order of InputTrees.
C6_OrderIndependent ==
    ret.op = "initialize" =>
        /\ Canon(ccd) = Canon(Rebuilt)
        /\ Len(ccd.cladeMapping) = Len(Rebuilt.cladeMapping)

\* initialize has run on trees added in an order that left the clades or
\* the partitions in another order than the order of InputTrees does
C6_Witness ==
    /\ ret.op = "initialize"
    /\ ~ghost.rejected
    /\ ccd.numBaseTrees >= 2
    /\ ccd.cladeMapping # Rebuilt.cladeMapping
    /\ \E k \in Clades : Len(ccd.cladeMapping[k].partitions) >= 2

----------------------------------------------------------------------------

\* The internal nodes of a tree
RECURSIVE InternalNodes(_)
InternalNodes(v) ==
    IF isLeaf(v) THEN {}
    ELSE {v} \cup UNION {InternalNodes(v.children[i]) : i \in 1..Len(v.children)}

\* The clade of a set of leaf labels: its index in cladeMapping, 0 when a
\* label is not in the taxon index or no clade has these bits
CladeOfLabels(S) ==
    IF S \subseteq DOMAIN ccd.taxonMapping
    THEN getClade(ccd, {ccd.taxonMapping[l] : l \in S})
    ELSE 0

\* The partition of a binary internal node in its clade, 0 when the clade,
\* a child clade or the partition is absent
PartitionOfNode(v) ==
    LET k == CladeOfLabels(TipLabels(v))
        k1 == CladeOfLabels(TipLabels(v.children[1]))
        k2 == CladeOfLabels(TipLabels(v.children[2]))
    IN  IF k = 0 \/ k1 = 0 \/ k2 = 0 THEN 0
        ELSE getCladePartition(ccd.cladeMapping[k], k1, k2)

\* C7: getTreeLogProbability(T) is -Infinity for every rooted binary tree T
\* with an internal node whose clade is not in cladeMapping or whose pair of
\* child clades is no partition of that clade, a leaf with a label outside
\* the taxon index included.
C7_AbsentGivesMinusInfinity ==
    /\ ret.op = "getTreeLogProbability"
    /\ IsBinary(InputTrees[ret.arg])
    /\ \E v \in InternalNodes(InputTrees[ret.arg]) : PartitionOfNode(v) = 0
    => ret.value = NegInf

\* C8: on a CCD built by fromTrees, getTreeLogProbability(T) is finite for
\* every retained tree T, and every internal node of a binary T finds its
\* clade and its partition with ccp > 0.
C8_RetainedTreeFinite ==
    /\ ret.op = "getTreeLogProbability"
    /\ ghost.built = "fromTrees"
    /\ ghost.bag[ret.arg] > 0
    => /\ ret.err = NoError
       /\ RLess(NegInf, ret.value)
       /\ IsBinary(InputTrees[ret.arg]) =>
              \A v \in InternalNodes(InputTrees[ret.arg]) :
                  /\ PartitionOfNode(v) # 0
                  /\ RLess(RZero,
                           ccd.cladeMapping[CladeOfLabels(TipLabels(v))]
                               .partitions[PartitionOfNode(v)].ccp)

\* a retained tree of three or more taxa was queried and has a probability
\* strictly between 0 and 1
C8_Witness ==
    /\ ret.op = "getTreeLogProbability"
    /\ ghost.built = "fromTrees"
    /\ ghost.bag[ret.arg] > 0
    /\ RLess(NegInf, ret.value)
    /\ RLess(ret.value, LogZero)

\* C9: after computeCladeProbabilities on an initialised CCD built from a
\* non-empty list of trees that addTree accepted, every clade's probability
\* lies in [0, 1].
C9_ProbabilitiesInUnitInterval ==
    /\ ret.op = "computeCladeProbabilities"
    /\ ghost.initialized
    /\ ~ghost.rejected
    /\ ccd.numBaseTrees > 0
    => \A k \in Clades :
           /\ RLeq(RZero, ccd.cladeMapping[k].probability)
           /\ RLeq(ccd.cladeMapping[k].probability, ROne)

\* The recursion of C10 on exponentials: M(leaf) = ln 1, M(C) = max over C's
\* partitions with ccp > 0 of ln ccp + M(child1) + M(child2), -Infinity when
\* C has no such partition
RECURSIVE M(_, _)
M(cm, k) ==
    IF CladeIsLeaf(cm[k]) THEN LogZero
    ELSE LET terms == {LogAdd(MathLog(cm[k].partitions[i].ccp),
                              LogAdd(M(cm, cm[k].partitions[i].childClades[1]),
                                     M(cm, cm[k].partitions[i].childClades[2])))
                         : i \in {j \in 1..Len(cm[k].partitions) :
                                      RLess(RZero, cm[k].partitions[j].ccp)}}
         IN  IF terms = {} THEN NegInf
             ELSE CHOOSE t \in terms : \A u \in terms : RLeq(u, t)

\* C10: on an initialised CCD getMaxLogTreeProbability returns M(root).
C10_MaxIsRecursion ==
    ret.op = "getMaxLogTreeProbability" /\ ghost.initialized =>
        ret.value = M(ccd.cladeMapping, ccd.rootClade)

\* two copies of ((A,B),C) and one of ((A,C),B): the maximum is ln(2/3)
C10_Witness ==
    /\ ret.op = "getMaxLogTreeProbability"
    /\ ghost.initialized
    /\ ccd.leafArraySize = 3
    /\ ghost.bag = [EmptyBag EXCEPT ![4] = 2, ![5] = 1]
    /\ ret.value = Rat(2, 3)

\* C11: on a CCD built by fromTrees from a single rooted binary tree T with
\* burnin 0, every partition has ccp 1, getMaxLogTreeProbability returns 0,
\* getMaxTreeProbability returns 1 and getTreeLogProbability(T) returns 0.
C11_SingleTreeIsCertain ==
    /\ ghost.built = "fromTrees"
    /\ Len(ghost.list) = 1
    /\ ghost.burnin = <<0, 1>>
    /\ IsBinary(InputTrees[ghost.list[1]])
    => /\ Exists
       /\ \A k \in Clades :
              \A i \in 1..Len(ccd.cladeMapping[k].partitions) :
                  ccd.cladeMapping[k].partitions[i].ccp = ROne
       /\ ret.op = "getMaxLogTreeProbability" => ret.value = LogZero
       /\ ret.op = "getMaxTreeProbability" => ret.value = ROne
       /\ ret.op = "getTreeLogProbability" /\ ret.arg = ghost.list[1]
              => ret.err = NoError /\ ret.value = LogZero

\* built from the single tree (((A,B),C),D), which was then queried
C11_Witness ==
    /\ ghost.built = "fromTrees"
    /\ ghost.list = <<1>>
    /\ ghost.burnin = <<0, 1>>
    /\ ret.op = "getTreeLogProbability"
    /\ ret.arg = 1
    /\ ret.value = LogZero
    /\ Len(ccd.cladeMapping[ccd.rootClade].partitions) = 1

\* Result of the within-chain analysis of the state, whichever entry made it
MixResult == ret.value

MixDone ==
    /\ ret.op \in {"calculateWithinChainDissonance", "checkMixing"}
    /\ ret.err = NoError

\* The trees handed to calculateWithinChainDissonance
MixInput ==
    IF ret.op = "checkMixing" THEN treesToUse(treesOf(ghost.list), ghost.burnin)
    ELSE treesOf(ghost.list)

\* C12: calculateWithinChainDissonance(trees, k) hands calculateDissonance k
\* contiguous blocks: block i < k-1 is trees[i*floor(n/k) .. (i+1)*floor(n/k)-1],
\* the last block is trees[(k-1)*floor(n/k) .. n-1], so every tree is in
\* exactly one block and the last block takes the remainder.
C12_ContiguousBlocks ==
    MixDone =>
        LET trees == MixInput
            n == Len(trees)
            k == ret.arg
            q == n \div k
            blocks == MixResult.treeSets
        IN  /\ Len(blocks) = k
            /\ \A i \in 0..(k - 2) :
                   blocks[i + 1] = [t \in 1..q |-> trees[i * q + t]]
            /\ blocks[k] = [t \in 1..(n - (k - 1) * q) |-> trees[(k - 1) * q + t]]
            /\ Len(blocks[k]) = q + (n % k)

\* seven trees in three blocks: the last block has three trees
C12_Witness ==
    /\ MixDone
    /\ ret.arg = 3
    /\ Len(ghost.list) = 7
    /\ Len(MixResult.treeSets[1]) = 2
    /\ Len(MixResult.treeSets[3]) = 3

\* C13: with fewer than 2k trees calculateWithinChainDissonance throws before
\* any CCD is created or any tree ingested; with 2k trees or more it does not
\* throw for that reason, and checkMixing never makes it throw for that reason.
C13_TwoTreesPerBlock ==
    /\ ret.op = "calculateWithinChainDissonance" =>
           IF Len(ghost.list) < 2 * ret.arg
           THEN /\ ret.err = NotEnoughTrees
                /\ MixResult.ccdsCreated = 0
                /\ MixResult.treesIngested = 0
           ELSE /\ ret.err # NotEnoughTrees
                /\ MixResult.ccdsCreated = ret.arg + 1
    /\ ret.op = "checkMixing" => ret.err # NotEnoughTrees

\* five trees for three blocks are refused
C13_Witness ==
    /\ ret.op = "calculateWithinChainDissonance"
    /\ ret.arg = 3
    /\ Len(ghost.list) = 5
    /\ ret.err = NotEnoughTrees
    /\ MixResult.ccdsCreated = 0

\* C14: relativeDissonance is finalDissonance / avgFinalEntropy (0 when
\* avgFinalEntropy is not positive), and the interpretation is the grade of
\* that same relativeDissonance, also when avgFinalEntropy is 0 and
\* finalDissonance is positive.
C14_InterpretationOfRelative ==
    MixDone =>
        /\ MixResult.relativeDissonance =
               IF RealSign(MixResult.avgFinalEntropy) = 1
               THEN RealDiv(MixResult.finalDissonance, MixResult.avgFinalEntropy)
               ELSE QuotZero
        /\ MixResult.interpretation = gradeFrom(MixResult.relativeDissonance, 1)

\* All trees of the list have one topology
Identical(list) ==
    \/ \A i \in 1..Len(list) : list[i] \in {4, 7}
    \/ \A i \in 1..Len(list) : list[i] = list[1]

\* C15: for n >= 4 topologically identical trees, every chain entropy and
\* pooled entropy at every step is 0, every per-step dissonance and the final
\* dissonance are 0, and the interpretation is "Exceptional mixing".
C15_IdenticalTreesMixPerfectly ==
    MixDone /\ Len(MixInput) >= 4 /\ Identical(ghost.list) =>
        /\ \A j \in 1..(ret.arg + 1) :
               /\ Len(MixResult.entropies[j]) = MixResult.numTrees
               /\ \A i \in 1..MixResult.numTrees :
                      MixResult.entropies[j][i] = RealZero
        /\ Len(MixResult.dissonanceValues) = MixResult.numTrees
        /\ \A i \in 1..MixResult.numTrees : MixResult.dissonanceValues[i] = RealZero
        /\ MixResult.finalDissonance = RealZero
        /\ MixResult.interpretation = Grades[1]

\* two copies of ((A,B),C) in one half and two of (C,(B,A)) in the other
C15_Witness ==
    /\ MixDone
    /\ ret.arg = 2
    /\ ghost.list = <<4, 4, 7, 7>>
    /\ MixResult.numTrees = 2
    /\ Len(MixResult.combinedCCD.cladeMapping[1].partitions) = 1
    /\ MixResult.combinedCCD.numBaseTrees = 4

\* C20: every per-step dissonance recorded by calculateDissonance, the pooled
\* entropy minus the mean of the chain entropies, is at least 0.
C20_DissonanceNotNegative ==
    MixDone =>
        \A i \in 1..Len(MixResult.dissonanceValues) :
            RealSign(MixResult.dissonanceValues[i]) \in {0, 1}

\* C16: if the progress callback throws at any invocation during
\* fromTreesAsync, the call rejects and returns no CCD; the caller never
\* obtains a CCD on which an addTree has not been followed by initialize.
C16_CancelledBuildIsDiscarded ==
    ghost.built = "async" =>
        /\ Frame.threw => Frame.pc = "rejected" /\ ret.err = CallbackError /\ ~Exists
        /\ Frame.pc = "rejected" => ~Exists
        /\ Exists =>
               /\ Frame.pc = "returned"
               /\ ~Frame.pendingAdd
               /\ ccd = Frame.ccd
               /\ \A k \in Clades :
                      \A i \in 1..Len(ccd.cladeMapping[k].partitions) :
                          ccd.cladeMapping[k].partitions[i].ccp # RMinusOne

\* the callback threw at its last invocation, after both trees were added
C16_Witness ==
    /\ ghost.built = "async"
    /\ Frame.threw
    /\ Frame.i = 2
    /\ Frame.pendingAdd
    /\ Frame.ccd.numBaseTrees = 2
    /\ ~Exists

\* C17: for a BitSet b of logical size L, BitSet.fromString(b.toString(), L)
\* equals b, and b.toString() lists exactly the set indices in ascending
\* order, separated by commas
C17_RoundTrip ==
    ret.op = "roundTrip" =>
        /\ ret.err = NoError
        /\ ret.value.same
        /\ ret.value.str = join(SortedSeq(ret.value.members))

\* A BitSet of two full words with the highest bit of each word set went
\* through the conversion
C17_Witness ==
    /\ ret.op = "roundTrip"
    /\ ret.value.b.size = WordBits * MaxWords
    /\ {WordBits - 1, WordBits * MaxWords - 1} \subseteq ret.value.members
    /\ ret.value.same

\* C18: when the number r of trees remaining after burn-in exceeds
\* maxTrees, randomSample(r, maxTrees) returns exactly maxTrees pairwise
\* distinct indices in [0, r) in strictly ascending order, and the label of
\* each selected tree is "Tree " followed by its 1-based position in the
\* file
C18_SampleOfMaxTrees ==
    (ret.op = "calculateMDS" /\ ret.value.sampled) =>
        LET v == ret.value
            r == Len(v.treesAfterBurnin)
        IN  /\ Len(v.indices) = v.maxTrees
            /\ \A x \in 1..Len(v.indices) : v.indices[x] \in 0..(r - 1)
            /\ \A x \in 1..(Len(v.indices) - 1) : v.indices[x] < v.indices[x + 1]
            /\ Len(v.treeLabels) = Len(v.selectedTrees)
            /\ \A x \in 1..Len(v.selectedTrees) :
                   v.treeLabels[x] = <<"T", "r", "e", "e", " ">> \o NumberToString(v.selectedTrees[x])

\* Eigenpairs a and b are the largest and the second largest of eig
TopTwo(eig, a, b) ==
    /\ a # b
    /\ \A c \in 1..Len(eig.lambda) : eig.lambda[c] <= eig.lambda[a]
    /\ \A c \in 1..Len(eig.lambda) \ {a} : eig.lambda[c] <= eig.lambda[b]

\* C19: classicalMDS returns n coordinate pairs; with the eigenpairs sorted
\* by eigenvalue descending, dimension 1 is v1 * sqrt(lambda1) if
\* lambda1 > 0 and dimension 2 is v2 * sqrt(lambda2) if lambda2 > 0; if
\* lambda2 <= 0 every second coordinate is 0 and if lambda1 <= 0 every
\* coordinate is (0, 0)
C19_TopTwoEigenpairs ==
    ret.op = "classicalMDS" =>
        LET v == ret.value
            n == v.n
            lambda == v.eig.lambda
            E == v.eig.E
        IN  /\ ret.err = NoError
            /\ Len(v.coords) = n
            /\ n = 1 => v.coords[1] = << IF lambda[1] > 0 THEN E[1][1] * sqrt(lambda[1]) ELSE 0, 0 >>
            /\ n > 1 =>
                 \E a, b \in 1..n :
                    /\ TopTwo(v.eig, a, b)
                    /\ \A i \in 1..n :
                          /\ v.coords[i][1] = IF lambda[a] > 0 THEN E[i][a] * sqrt(lambda[a]) ELSE 0
                          /\ v.coords[i][2] = IF lambda[b] > 0 THEN E[i][b] * sqrt(lambda[b]) ELSE 0
                    /\ lambda[b] <= 0 => \A i \in 1..n : v.coords[i][2] = 0
                    /\ lambda[a] <= 0 => \A i \in 1..n : v.coords[i] = <<0, 0>>

----------------------------------------------------------------------------

\* C21: in every state reached by addTree calls, failed ones included, every
\* clade of cardinality > 1 has an occurrenceCount equal to the sum of the
\* occurrenceCounts of its partitions
C21_OccurrencesBalance ==
    \A k \in Clades :
        cardinality(ccd.cladeMapping[k].cladeInBits) > 1 =>
            OccSum(ccd.cladeMapping[k]) = ccd.cladeMapping[k].occurrenceCount

\* (((A,C),B),D) failed on D in a CCD over A, B, C that held ((A,C),B): the
\* failed call counted the clades {A,C} and {A,B,C} a second time
C21_Witness ==
    /\ ret.op = "addTree"
    /\ ret.arg = 2
    /\ ret.err = TaxonUnknown("D")
    /\ ccd.numBaseTrees = 2
    /\ ghost.bag[5] = 1
    /\ \E k \in Clades :
          /\ ccd.cladeMapping[k].cladeInBits = {0, 2}
          /\ ccd.cladeMapping[k].occurrenceCount = 2
    /\ ccd.cladeMapping[ccd.rootClade].occurrenceCount = 2

----------------------------------------------------------------------------

\* Every tree handed to addTree so far is a rooted binary tree
OnlyBinaryTrees == \A i \in 1..NumTrees : ghost.bag[i] > 0 => IsBinary(InputTrees[i])

\* C22: after addTree calls on rooted binary trees, the two children of
\* every partition have disjoint bitsets whose union is the parent's bitset,
\* each child has fewer taxa than the parent, and no clade of cardinality 1
\* has a partition
C22_PartitionsSplitTheClade ==
    OnlyBinaryTrees =>
        \A k \in Clades :
            LET clade == ccd.cladeMapping[k]
            IN  /\ cardinality(clade.cladeInBits) = 1 => Len(clade.partitions) = 0
                /\ \A i \in 1..Len(clade.partitions) :
                      LET first == ccd.cladeMapping[clade.partitions[i].childClades[1]].cladeInBits
                          second == ccd.cladeMapping[clade.partitions[i].childClades[2]].cladeInBits
                      IN  /\ first \cap second = {}
                          /\ first \cup second = clade.cladeInBits
                          /\ cardinality(first) < cardinality(clade.cladeInBits)
                          /\ cardinality(second) < cardinality(clade.cladeInBits)

\* Binary trees over four taxa gave the clade {A,B,C,D} two partitions, one
\* of them into the clades {A,C} and {B,D}
C22_Witness ==
    /\ OnlyBinaryTrees
    /\ ccd.numBaseTrees >= 2
    /\ \E k \in Clades :
          /\ ccd.cladeMapping[k].cladeInBits = {0, 1, 2, 3}
          /\ Len(ccd.cladeMapping[k].partitions) = 2
          /\ \E i \in 1..2 :
                {ccd.cladeMapping[ccd.cladeMapping[k].partitions[i].childClades[s]].cladeInBits
                    : s \in 1..2} = {{0, 2}, {1, 3}}

----------------------------------------------------------------------------

\* C23: right after initialize returns, whatever the state it was called
\* in, the entropy dirty flag, the topology-count dirty flag and
\* probabilitiesDirty are all false
C23_InitializeClearsFlags ==
    ret.op = "initialize" =>
        /\ ~ccd.entropyDirty
        /\ ~ccd.numberOfTopologiesDirty
        /\ ~ccd.probabilitiesDirty

----------------------------------------------------------------------------

\* Trees handed to addTree in SpecLife
LifeTrees == {3, 11, 12}

\* Trees handed to getTreeLogProbability in SpecLife
LifeQueries == {3}

\* The life of one CCD: construction, ingestion, normalisation, every getter
NextLife ==
    \/ Construct
    \/ \E i \in LifeTrees : ccd.numBaseTrees < MaxTrees /\ AddTree(i)
    \/ Initialize
    \/ ComputeCladeProbabilities
    \/ ComputeCladeProbabilitiesIfDirty
    \/ GetEntropy
    \/ GetMaxLogTreeProbability
    \/ GetMaxTreeProbability
    \/ \E i \in LifeQueries : GetTreeLogProbability(i)

SpecLife == Init /\ [][NextLife]_vars

\* The root clade is in cladeMapping and has all L bits
RootPresent ==
    /\ ccd.rootClade \in Clades
    /\ ccd.cladeMapping[ccd.rootClade].cladeInBits = setRange(0, ccd.leafArraySize)

OnePerBitset ==
    \A k, m \in Clades :
        ccd.cladeMapping[k].cladeInBits = ccd.cladeMapping[m].cladeInBits => k = m

\* The children of the partitions of each clade, in order
Partitions(c) ==
    [k \in 1..Len(c.cladeMapping) |->
        [i \in 1..Len(c.cladeMapping[k].partitions) |->
            c.cladeMapping[k].partitions[i].childClades]]

\* C24: across addTree, initialize and getter calls the keys of cladeMapping
\* only grow: the all-ones root clade is there from construction on, a clade
\* once inserted stays the clade of its bitset, no bitset has two clades, and
\* initialize and the getters add no clade and no partition
C24_CladesOnlyGrow ==
    [][Exists' =>
          /\ RootPresent'
          /\ OnePerBitset'
          /\ Exists =>
                /\ ccd'.rootClade = ccd.rootClade
                /\ Len(ccd'.cladeMapping) >= Len(ccd.cladeMapping)
                /\ \A k \in Clades :
                      ccd'.cladeMapping[k].cladeInBits = ccd.cladeMapping[k].cladeInBits
                /\ ret'.op # "addTree" => Partitions(ccd') = Partitions(ccd)]_vars

\* Every getter has been called on a CCD that was grown to seven clades in
\* two steps
C24_Witness ==
    /\ ret.op \in {"getEntropy", "getTreeLogProbability", "getMaxLogTreeProbability"}
    /\ ccd.numBaseTrees >= 2
    /\ ghost.initialized
    /\ Len(ccd.cladeMapping) >= 7

----------------------------------------------------------------------------

\* The clades reachable from the clades S along partitions
RECURSIVE Descendants(_, _)
Descendants(cm, S) ==
    LET children(k) == UNION {{cm[k].partitions[i].childClades[1],
                               cm[k].partitions[i].childClades[2]}
                              : i \in 1..Len(cm[k].partitions)}
        next == S \cup UNION {children(k) : k \in S}
    IN  IF next = S THEN S ELSE Descendants(cm, next)

\* The sum over the (parent, partition) pairs of clade k of
\* parent.probability * ccp
SumOverParents(cm, k) ==
    LET pairs == {s \in UNION {{<<P, i>> : i \in 1..Len(cm[P].partitions)}
                               : P \in cm[k].parentClades} :
                     \E x \in 1..2 : cm[s[1]].partitions[s[2]].childClades[x] = k}
        w == [s \in pairs |->
                 RMul(cm[s[1]].probability, cm[s[1]].partitions[s[2]].ccp)]
    IN  RSum(w, pairs)

EachDistributesOnce(order, cm, root) ==
    /\ \A i, j \in DOMAIN order : order[i] = order[j] => i = j
    /\ \A i \in DOMAIN order :
           \A P \in cm[order[i]].parentClades :
               \E j \in 1..(i - 1) : order[j] = P
    /\ \A k \in Descendants(cm, {root}) : \E i \in DOMAIN order : order[i] = k
    /\ \A k \in Descendants(cm, {root}) \ {root} :
           cm[k].probability = SumOverParents(cm, k)

\* C25: in computeCladeProbabilities a clade distributes its probability at
\* most once and only after all the clades of its parentClades have
\* distributed theirs; every clade reachable from the root distributes, and
\* ends with the sum over its (parent, partition) pairs of
\* parent.probability * ccp.  Stated for an initialised CCD all of whose
\* addTree calls returned.
C25_EachCladeDistributesOnce ==
    /\ ret.op = "computeCladeProbabilities"
    /\ ghost.initialized
    /\ ~ghost.rejected
    => EachDistributesOnce(distributionOrder(ccd), ccd.cladeMapping, ccd.rootClade)

----------------------------------------------------------------------------

\* The trees of the chains of SpecYield
StepTrees == {4, 5}

StepLists == UNION {[1..n -> StepTrees] : n \in 0..MaxSteps}

\* No set, one chain, or two chains the second of which is not the longer
StepSets == {<<>>} \cup {<<a>> : a \in StepLists}
                   \cup {s \in {<<a, b>> : a \in StepLists, b \in StepLists} :
                             Len(s[2]) <= Len(s[1])}

\* The two asynchronous constructions, with and without a progress callback
NextYield ==
    \/ \E list \in AsyncLists, burnin \in Burnins : StartAsync(list, burnin)
    \/ \E list \in AsyncLists, burnin \in Burnins : RunAsync(list, burnin)
    \/ \E outcome \in Outcomes : Progress(outcome)
    \/ \E outcome \in Outcomes : Finish(outcome)
    \/ \E sets \in StepSets, callback \in BOOLEAN : StartDissonance(sets, callback)
    \/ \E outcome \in Outcomes : ResumeDissonance(outcome)

SpecYield == Init /\ [][NextYield]_vars

\* The addTree calls fromTreesAsync has made so far
AddTreeCalls == IF ghost.built = "async" THEN Frame.ccd.numBaseTrees ELSE 0

\* The tree steps calculateDissonance has begun so far
TreeSteps == IF ghost.built = "steps" THEN Frame.entered ELSE 0

\* C26: with or without a progress callback, fromTreesAsync is suspended
\* between any two of its addTree calls and calculateDissonance in each of
\* its tree steps: no run from one suspension to the next holds two addTree
\* calls or two tree steps
C26_YieldInEveryIteration ==
    [][/\ AddTreeCalls' <= AddTreeCalls + 1
       /\ TreeSteps' <= TreeSteps + 1]_vars

----------------------------------------------------------------------------

\* calculateDissonance is between two tree steps or has returned
BetweenSteps ==
    ghost.built = "steps" /\ Frame.pc \in {"callback", "timeout", "returned"}

\* The tree steps calculateDissonance has completed
StepsDone == Frame.entered

\* The first n trees of every chain in the order of ingestion into the
\* pooled CCD: step by step, chain by chain
pooledTrees(treeSets, n) ==
    Array([x \in 1..(Len(treeSets) * n) |->
              treeSets[((x - 1) % Len(treeSets)) + 1][((x - 1) \div Len(treeSets)) + 1]])

\* A CCD over the taxa of all the sets that ingested trees and was initialised
FreshCCD(treeSets, trees) ==
    LET names == sortedTaxa(taxaOfSets(treeSets))
    IN  initialize(addTrees(CCD1(Len(names), names), trees, 1).ccd)

\* occurrenceCount of the clade of c with the bits, 0 when c has none
CountOf(c, bits) ==
    IF getClade(c, bits) = 0 THEN 0
    ELSE c.cladeMapping[getClade(c, bits)].occurrenceCount

RECURSIVE SumOfCounts(_, _, _)
SumOfCounts(ccds, bits, j) ==
    IF j > Len(ccds) THEN 0
    ELSE CountOf(ccds[j], bits) + SumOfCounts(ccds, bits, j + 1)

\* C27: in calculateDissonance over k tree sets of least length m, at the
\* end of every tree step i the CCD of chain j holds exactly the trees
\* treeSets[j][0..i] and the pooled CCD the k * (i + 1) trees of all chains,
\* each pooled clade counted as often as in all the chains together; every
\* entropy recorded is that of a CCD initialised after its last addTree; the
\* value returned holds m dissonance values and k + 1 entropy series of
\* length m, and no tree at a position >= m is ingested
C27_StepwiseIngestion ==
    BetweenSteps =>
        LET sets == Frame.treeSets
            k == Len(sets)
            n == StepsDone
            st == Frame.st
        IN  /\ n <= Frame.numTrees
            /\ \A j \in 1..k :
                   /\ st.ccds[j].numBaseTrees = n
                   /\ Canon(st.ccds[j]) = Canon(FreshCCD(sets, SubSeq(sets[j], 1, n)))
                   /\ Len(st.entropies[j]) = n
                   /\ \A s \in 1..n :
                          st.entropies[j][s] =
                              getEntropy(FreshCCD(sets, SubSeq(sets[j], 1, s))).value
            /\ st.combinedCCD.numBaseTrees = k * n
            /\ Canon(st.combinedCCD) = Canon(FreshCCD(sets, pooledTrees(sets, n)))
            /\ \A x \in 1..Len(st.combinedCCD.cladeMapping) :
                   st.combinedCCD.cladeMapping[x].occurrenceCount =
                       SumOfCounts(st.ccds, st.combinedCCD.cladeMapping[x].cladeInBits, 1)
            /\ Len(st.entropies[k + 1]) = n
            /\ \A s \in 1..n :
                   st.entropies[k + 1][s] =
                       getEntropy(FreshCCD(sets, pooledTrees(sets, s))).value
            /\ Len(st.dissonanceValues) = n
            /\ Frame.pc = "returned" =>
                   /\ n = Frame.numTrees
                   /\ Len(Frame.result.dissonanceValues) = Frame.numTrees
                   /\ Len(Frame.result.entropies) = k + 1
                   /\ \A j \in 1..(k + 1) :
                          Len(Frame.result.entropies[j]) = Frame.numTrees

\* Two chains of three and two trees: returned after two steps, the third
\* tree of the first chain left out, the chains' entropies different
C27_Witness ==
    /\ BetweenSteps
    /\ Frame.pc = "returned"
    /\ Frame.callback
    /\ Len(Frame.treeSets) = 2
    /\ Len(Frame.treeSets[1]) = 3
    /\ Frame.numTrees = 2
    /\ Frame.st.ccds[1].numBaseTrees = 2
    /\ Frame.st.combinedCCD.numBaseTrees = 4
    /\ Frame.result.entropies[1][2] # Frame.result.entropies[2][2]

----------------------------------------------------------------------------

\* C28: whenever no invocation of the progress callback throws,
\* fromTreesAsync ends as fromTrees does on the same trees and burn-in: the
\* same error, or a CCD with the same taxon index, clades, partitions,
\* counts, ccps, numBaseTrees and dirty flags; the callback's first argument
\* never decreases and is the number of retained trees at the end, and its
\* second argument is that number throughout
C28_AsyncBuildsTheSameCCD ==
    ghost.built = "async" /\ ~Frame.threw =>
        LET r == fromTrees(treesOf(ghost.list), ghost.burnin)
            calls == Frame.calls
            retained == Len(treesToUse(treesOf(ghost.list), ghost.burnin))
        IN  /\ \A x \in 1..Len(calls) :
                   /\ calls[x][2] = retained
                   /\ x > 1 => calls[x - 1][1] <= calls[x][1]
            /\ Frame.pc # "loop" =>
                   /\ ret.err = r.err
                   /\ ccd = r.ccd
                   /\ Exists <=> Frame.pc = "returned"
                   /\ Exists /\ calls # <<>> => calls[Len(calls)][1] = retained

\* fromTreesAsync has returned the CCD of two trees after three invocations
\* of the callback
C28_Witness ==
    /\ ghost.built = "async"
    /\ Frame.pc = "returned"
    /\ Frame.calls = << <<1, 2>>, <<2, 2>>, <<2, 2>> >>
    /\ ccd.numBaseTrees = 2
    /\ Len(ccd.cladeMapping) >= 5
    /\ ccd = fromTrees(treesOf(ghost.list), ghost.burnin).ccd

----------------------------------------------------------------------------

\* C29: an addTree call that fails on a leaf label that is not in the taxon
\* index leaves the CCD as it was: numBaseTrees, the clades and partitions
\* with their occurrenceCounts, and the three dirty flags
C29_FailedAddTreeChangesNothing ==
    [][ret'.op = "addTree" /\ ret'.err.kind = "TaxonUnknown" =>
          /\ ccd'.numBaseTrees = ccd.numBaseTrees
          /\ Len(ccd'.cladeMapping) = Len(ccd.cladeMapping)
          /\ Canon(ccd') = Canon(ccd)
          /\ ccd'.probabilitiesDirty = ccd.probabilitiesDirty
          /\ ccd'.entropyDirty = ccd.entropyDirty
          /\ ccd'.numberOfTopologiesDirty = ccd.numberOfTopologiesDirty]_vars

----------------------------------------------------------------------------

\* Clade k of cm is no leaf and has no partition with ccp > 0
NoValidPartition(cm, k) ==
    /\ ~CladeIsLeaf(cm[k])
    /\ \A i \in 1..Len(cm[k].partitions) : ~RLess(RZero, cm[k].partitions[i].ccp)

\* C30: getMaxLogTreeProbability ends after at most as many passes as the
\* CCD has clades; whenever some non-leaf clade has no partition with
\* ccp > 0 it returns -Infinity for the root; on an initialised CCD whose
\* root was observed every clade is finalised in fewer passes than the limit
C30_MaxEndsWithinThePassLimit ==
    ret.op = "getMaxLogTreeProbability" =>
        /\ ret.arg <= Len(ccd.cladeMapping)
        /\ (\E k \in Clades : NoValidPartition(ccd.cladeMapping, k)) =>
               ret.value = NegInf
        /\ ghost.initialized /\ ccd.cladeMapping[ccd.rootClade].occurrenceCount > 0 =>
               /\ ret.arg < Len(ccd.cladeMapping)
               /\ \A k \in Clades : ccd.cladeMapping[k].maxSubtreeCCP # NegInf

====
